---- MODULE Spec2Model ----
(***************************************************************************)
(* A state-machine model of pydemic: the restricted-key records            *)
(* (pydemic/__init__.py), the likelihood-estimation harness                *)
(* (pydemic/sampling.py), the calibration entry point, the renewal stepper *)
(* and the SEIR++ constructors and readouts (pydemic/models/seirpp.py),    *)
(* the discrete driver (pydemic/run.py) and the HDF backend                *)
(* (pydemic/hdf.py).  Every component has its own specification; the       *)
(* variables of the components a specification does not exercise stay at   *)
(* their idle values.                                                      *)
(***************************************************************************)
EXTENDS Integers, Sequences, FiniteSets, TLC

VARIABLES
    \* ---- AttrDict (pydemic/__init__.py) ----
    ad_cls,        \* the class being constructed
    ad_args,       \* key names of the positional mapping (*args)
    ad_kwargs,     \* the supplied keyword names (**kwargs)
    ad_outcome,    \* "none" | "ok" | "ValueError"
    ad_self,       \* the keys of the constructed instance (also its attributes)
    \* ---- LikelihoodEstimatorBase (pydemic/sampling.py) ----
    fit_parameters, \* sequence of SampleParameter records
    theta,          \* the vector handed to the last call
    est_op,         \* "none" | "check_within_bounds" | "__call__"
    est_ret,        \* what the last call returned
    uni_in,         \* sample_uniform's arguments and the subclass's likelihood
    call_log,       \* the thetas __call__ was invoked with by the sampler
    ll_calls,       \* the arguments of every get_log_likelihood invocation
                    \* made by the last call, in order
    \* ---- SEIRPlusPlusSimulation.__init__ (pydemic/models/seirpp.py) ----
    sim_kwargs,     \* the keyword arguments of the construction
    sim,            \* the constructed simulation, or the error raised
    \* ---- get_model_data (pydemic/models/seirpp.py) ----
    gmd_call,       \* the call as made: [t, kwargs]
    gmd_pc,         \* the statement get_model_data is about to execute
    gmd_kwargs,     \* the keyword bag as the call has left it so far
    gmd_local,      \* the locals set so far: t0, tf, mitigation, ...
    gmd_err,        \* the exception raised, if any
    gmd_trace,      \* the calls made on the simulation, in order
    \* ---- NonMarkovianSEIRSimulationBase.__call__ / step ----
    run_in,         \* the simulation and the arguments of the run
    run_pc,         \* "setup" | "step" | "returned"
    run_count,      \* the time index the next stepper call is made for
    run_y,          \* y[key][age][index]: the arrays of the run
    run_calls,      \* the time indices the stepper was called with, in order
    \* ---- HDFBackend (pydemic/hdf.py) ----
    hdf_in,         \* the arguments of the construction that creates the file
    hdf_file,       \* the groups, datasets and attributes of the file
    hdf_pc,         \* "new" | "ready" (a backend exists) | "failed"
    hdf_err,        \* the exception the last constructor call raised
    hdf_read,       \* the last property read: [prop, outcome, value]
    hdf_open,       \* the file handles that are open
    \* ---- LikelihoodEstimatorBase.sample_emcee (pydemic/sampling.py) ----
    em_in,          \* the arguments: steps, checkpoint_steps, backend_filename
    em_pc,          \* "start" | "loop" | "returned" | "raised"
    em_iter,        \* sampler.iteration
    em_index,       \* index, the next row of autocorrelations to write
    em_hist,        \* autocorrelations, one entry per row
    em_log,         \* the iterations get_autocorr_time was called at
    em_err,         \* the exception raised, if any
    \* ---- evolve (pydemic/run.py) ----
    ev_in,          \* the arguments: population and pars
    ev_pc,          \* the statement evolve is about to execute
    ev_local,       \* the locals set so far: frac_infected, new_time
    ev_err,         \* the exception raised, if any
    ev_ret,         \* the population returned, if any
    \* ---- simulate (pydemic/run.py) ----
    dyn_in,         \* the arguments and the module's global namespace
    dyn_pc,         \* the statement simulate is about to execute
    dynamics,       \* the list of populations collected so far
    dyn_err,        \* the exception raised, if any
    \* ---- OldSEIRPlusPlusSimulation.__call__ (pydemic/models/seirpp.py) ----
    old_in,         \* the arguments: tspan, dt, and the readouts of the run
    old_pc,         \* "readouts" | "derive" | "returned"
    old_sol         \* the SimulationResult under construction: t and y

attrVars == <<ad_cls, ad_args, ad_kwargs, ad_outcome, ad_self>>
estVars  == <<fit_parameters, theta, est_op, est_ret, uni_in, call_log,
             ll_calls>>
simVars  == <<sim_kwargs, sim>>
gmdVars  == <<gmd_call, gmd_pc, gmd_kwargs, gmd_local, gmd_err, gmd_trace>>
runVars  == <<run_in, run_pc, run_count, run_y, run_calls>>
hdfVars  == <<hdf_in, hdf_file, hdf_pc, hdf_err, hdf_read, hdf_open>>
emVars   == <<em_in, em_pc, em_iter, em_index, em_hist, em_log, em_err>>
evVars   == <<ev_in, ev_pc, ev_local, ev_err, ev_ret>>
dynVars  == <<dyn_in, dyn_pc, dynamics, dyn_err>>
oldVars  == <<old_in, old_pc, old_sol>>

-----------------------------------------------------------------------------
(***************************************************************************)
(* Restricted-key records: AttrDict and its subclasses.                    *)
(***************************************************************************)

\* expected_kwargs of every AttrDict class of the repository.
expected_kwargs(cls) ==
    CASE cls = "AttrDict"        -> {}
      [] cls = "AgeDistribution" -> {"bin_edges", "counts"}
      [] cls = "PopulationModel" -> {"country", "cases", "populationServed",
                                     "hospitalBeds", "ICUBeds",
                                     "suspectedCasesToday", "importsPerDay"}

AttrDictClasses == {"AttrDict", "AgeDistribution", "PopulationModel"}

\* The keyword names a caller may supply: some declared ones and two that no
\* class declares.
KwargNames == {"bin_edges", "counts", "country", "cases", "populationServed",
               "hospitalBeds", "ICUBeds", "suspectedCasesToday",
               "importsPerDay", "extra", "age"}

\* The keys a positional mapping may carry.
ArgNames == {"note"}

\* The reading of the check with the subset relation the other way round.
AttrDictAcceptsSubsetOfDeclared(cls, kwargs) == kwargs \subseteq expected_kwargs(cls)

\* `not self.expected_kwargs.issubset(set(kwargs.keys()))` raises; this is
\* the negation of that condition.
AttrDictAccepts(cls, kwargs) == expected_kwargs(cls) \subseteq kwargs

\* AttrDict.__init__(*args, **kwargs) on the pending construction:
\* ValueError unless accepted, else the dict is built from args and kwargs
\* and becomes the attribute namespace.
AttrDictInit ==
    /\ ad_outcome = "none"
    /\ IF AttrDictAccepts(ad_cls, ad_kwargs)
       THEN /\ ad_outcome' = "ok"
            /\ ad_self' = ad_args \cup ad_kwargs
       ELSE /\ ad_outcome' = "ValueError"
            /\ ad_self' = {}
    /\ UNCHANGED <<ad_cls, ad_args, ad_kwargs>>

\* A construction about to be made: any class, any arguments.
AttrPending ==
    /\ ad_cls \in AttrDictClasses
    /\ ad_args \in SUBSET ArgNames
    /\ ad_kwargs \in SUBSET KwargNames
    /\ ad_outcome = "none"
    /\ ad_self = {}

AttrIdle ==
    /\ ad_cls = "AttrDict"
    /\ ad_args = {}
    /\ ad_kwargs = {}
    /\ ad_outcome = "done"
    /\ ad_self = {}

-----------------------------------------------------------------------------
(***************************************************************************)
(* LikelihoodEstimatorBase: bounds check and guarded likelihood call.      *)
(***************************************************************************)

\* Largest number of fit parameters (and of components of theta).
MaxParams == 2

\* The names of the fit parameters, in declared order.
ParNames == <<"r0", "beta", "gamma", "delta">>

BoundVals == {0, 1}
ThetaVals == {-1, 0, 1, 2}
\* What a subclass's get_log_likelihood may return (finite log-likelihoods).
LLVals == {-2, 0}
NegInf == "-inf"
NoRet == "none"

\* SampleParameter(name, bounds, guess, uncertainty); bounds is (lower, upper).
SampleParameter(name, bounds, guess, uncertainty) ==
    [name |-> name, bounds |-> bounds, guess |-> guess,
     uncertainty |-> uncertainty]

Min(a, b) == IF a <= b THEN a ELSE b

\* The test applied to one (parameter, value) pair, with the upper end open.
InBoundsUpperOpen(par, value) ==
    par.bounds[1] <= value /\ value < par.bounds[2]

\* `bounds[0] <= value <= bounds[1]`
InBounds(par, value) ==
    par.bounds[1] <= value /\ value <= par.bounds[2]

\* check_within_bounds: the loop over zip(fit_parameters, theta), which
\* stops at the shorter of the two and returns False at the first failure.
RECURSIVE CheckFrom(_, _, _)
CheckFrom(pars, th, i) ==
    IF i > Min(Len(pars), Len(th)) THEN TRUE
    ELSE IF ~InBounds(pars[i], th[i]) THEN FALSE
    ELSE CheckFrom(pars, th, i + 1)

check_within_bounds(pars, th) == CheckFrom(pars, th, 1)

\* fit_names = tuple(par.name for par in fit_parameters)
fit_names(pars) == [i \in 1..Len(pars) |-> pars[i].name]

\* dict(zip(names, th)) with the values listed in reverse order.
ZipDictReversed(names, th) ==
    LET n == Min(Len(names), Len(th))
    IN  [k \in {names[i] : i \in 1..n} |->
            th[n + 1 - (CHOOSE i \in 1..n :
                    /\ names[i] = k
                    /\ \A j \in 1..n : names[j] = k => j <= i)]]

\* dict(zip(names, th)): pairs up to the shorter length, a later pair
\* replacing an earlier one with the same key.
ZipDict(names, th) ==
    LET n == Min(Len(names), Len(th))
    IN  [k \in {names[i] : i \in 1..n} |->
            th[CHOOSE i \in 1..n :
                    /\ names[i] = k
                    /\ \A j \in 1..n : names[j] = k => j <= i]]

\* LikelihoodEstimatorBase.check_within_bounds(theta), called directly.
CheckWithinBoundsCall(th) ==
    /\ theta' = th
    /\ est_op' = "check_within_bounds"
    /\ est_ret' = check_within_bounds(fit_parameters, th)
    /\ ll_calls' = <<>>
    /\ UNCHANGED <<fit_parameters, uni_in, call_log>>

\* LikelihoodEstimatorBase.__call__(theta); ll is what the subclass's
\* get_log_likelihood returns for the mapping it is given.
EstimatorCall(th, ll) ==
    /\ theta' = th
    /\ est_op' = "__call__"
    /\ IF ~check_within_bounds(fit_parameters, th)
       THEN /\ est_ret' = NegInf
            /\ ll_calls' = <<>>
       ELSE /\ ll_calls' = <<ZipDict(fit_names(fit_parameters), th)>>
            /\ est_ret' = ll
    /\ UNCHANGED <<fit_parameters, uni_in, call_log>>

\* The vectors of length 1..MaxParams over S.
Vectors(S) == UNION {[1..n -> S] : n \in 1..MaxParams}

\* The parameter lists an estimator may be built with.
ParameterLists ==
    UNION {
        {[i \in 1..n |-> SampleParameter(ParNames[i], b[i], 0, 1)] :
            b \in [1..n -> BoundVals \X BoundVals]}
        : n \in 1..MaxParams}

EstIdle ==
    /\ fit_parameters = <<>>
    /\ theta = <<>>
    /\ est_op = "none"
    /\ est_ret = NoRet
    /\ uni_in = <<>>
    /\ call_log = <<>>
    /\ ll_calls = <<>>

-----------------------------------------------------------------------------
(***************************************************************************)
(* Numbers.  A float is modelled as an exact fraction <<n, d>> in lowest   *)
(* terms with d > 0; the IEEE values numpy produces on a division by zero  *)
(* are <<1, 0>> (inf), <<-1, 0>> (-inf) and <<0, 0>> (nan).  Rounding is   *)
(* not modelled.                                                           *)
(***************************************************************************)
Abs(x) == IF x < 0 THEN -x ELSE x
Sign(x) == IF x < 0 THEN -1 ELSE IF x = 0 THEN 0 ELSE 1

RECURSIVE Gcd(_, _)
Gcd(a, b) == IF b = 0 THEN a ELSE Gcd(b, a % b)

Norm(n, d) ==
    IF d = 0 THEN <<Sign(n), 0>>
    ELSE LET g == Gcd(Abs(n), Abs(d))
         IN  <<(Sign(d) * n) \div g, Abs(d) \div g>>

Frac(n, d) == Norm(n, d)
Zero == <<0, 1>>
One  == <<1, 1>>
Inf  == <<1, 0>>
NaN  == <<0, 0>>
IsNaN(x) == x = NaN
IsFinite(x) == x[2] # 0

\* The product of n1/d1 and n2/d2, cancelling across before multiplying.
Times(n1, d1, n2, d2) ==
    IF d1 = 0 \/ d2 = 0 \/ n1 = 0 \/ n2 = 0 THEN Norm(n1 * n2, d1 * d2)
    ELSE LET g1 == Gcd(Abs(n1), Abs(d2))
             g2 == Gcd(Abs(n2), Abs(d1))
         IN  Norm((n1 \div g1) * (n2 \div g2), (d1 \div g2) * (d2 \div g1))
FMul(a, b) == Times(a[1], a[2], b[1], b[2])
FDiv(a, b) == Times(a[1], a[2], b[2], b[1])
FAdd(a, b) ==
    IF a[2] = 0 /\ b[2] = 0
    THEN (IF a = b THEN a ELSE NaN)
    ELSE IF a[2] = 0 \/ b[2] = 0
    THEN Norm(a[1] * b[2] + b[1] * a[2], 0)
    ELSE LET g == Gcd(a[2], b[2])
         IN  Norm(a[1] * (b[2] \div g) + b[1] * (a[2] \div g),
                  (a[2] \div g) * b[2])
FSub(a, b) == FAdd(a, <<-b[1], b[2]>>)
\* a < b as floats compare: False whenever either side is nan.
FLt(a, b) == ~IsNaN(a) /\ ~IsNaN(b) /\ a # b /\ a[1] * b[2] < b[1] * a[2]
FLe(a, b) == ~IsNaN(a) /\ ~IsNaN(b) /\ (a = b \/ a[1] * b[2] < b[1] * a[2])

\* Number of age groups of the arrays (one entry per age group).
NAges == 2
Ages == 1..NAges

\* np.array(x) for a scalar x, as it broadcasts against the age axis.
Broadcast(x) == [a \in Ages |-> x]
\* Elementwise product and the sum over the age axis.
VMul(u, v) == [a \in Ages |-> FMul(u[a], v[a])]
VScale(u, c) == [a \in Ages |-> FMul(u[a], c)]
RECURSIVE SumTo(_, _)
SumTo(u, k) == IF k = 0 THEN Zero ELSE FAdd(SumTo(u, k - 1), u[k])
VSum(u) == SumTo(u, Len(u))

-----------------------------------------------------------------------------
(***************************************************************************)
(* SEIRPlusPlusSimulation.__init__: IFR rescaling of p_symptomatic, the    *)
(* check of the cascading probabilities and the readout edges.             *)
(***************************************************************************)
None == "None"
InvalidParametersError == "InvalidParametersError"

\* The keyword arguments __init__ declares.
SEIRPlusPlusKeys ==
    {"mitigation", "age_distribution", "ifr", "r0", "serial_dist",
     "seasonal_forcing_amp", "peak_day", "incubation_dist", "p_symptomatic",
     "p_positive", "hospitalized_dist", "p_hospitalized", "discharged_dist",
     "critical_dist", "p_critical", "dead_dist", "p_dead", "recovered_dist",
     "all_dead_dist", "all_dead_multiplier"}

\* kwargs[key] if passed, else the declared default.
Arg(kwargs, key, default) ==
    IF key \in DOMAIN kwargs THEN kwargs[key] ELSE default

\* The stages in the order the check visits them.
StageNames == <<"p_symptomatic", "p_hospitalized", "p_critical", "p_dead">>

\* The rescaling without the all_dead_multiplier in the net death probability.
RescaleIgnoringMultiplier(age, ps, ph, pc, pd, adm, ifr) ==
    LET p_dead_net == VMul(VMul(VMul(ps, ph), pc), pd)
        weighted_sum == VSum(VMul(p_dead_net, age))
    IN  VScale(ps, FDiv(ifr, weighted_sum))

\* p_dead_net, weighted_sum and `p_symptomatic *= ifr / weighted_sum`.
Rescale(age, ps, ph, pc, pd, adm, ifr) ==
    LET p_dead_net == VScale(VMul(VMul(VMul(ps, ph), pc), pd), adm)
        weighted_sum == VSum(VMul(p_dead_net, age))
    IN  VScale(ps, FDiv(ifr, weighted_sum))

\* p_progression: [age, age*ps, age*ps*ph, age*ps*ph*pc, age*ps*ph*pc*pd].
PProgression(age, ps, ph, pc, pd) ==
    LET p1 == VMul(age, ps)
        p2 == VMul(p1, ph)
        p3 == VMul(p2, pc)
        p4 == VMul(p3, pd)
    IN  <<age, p1, p2, p3, p4>>

\* The comparison of one stage with the equality counted as too large.
StageTooLargeOrEqual(prog, i) == FLe(VSum(prog[i]), VSum(prog[i + 1]))

\* `p_progression[i].sum() < p_progression[i+1].sum()` (i counted from 1).
StageTooLarge(prog, i) == FLt(VSum(prog[i]), VSum(prog[i + 1]))

\* The loop over the names reporting the last offending stage.
LastOffender(prog) ==
    IF \E i \in 1..4 : StageTooLarge(prog, i)
    THEN CHOOSE i \in 1..4 :
            /\ StageTooLarge(prog, i)
            /\ \A j \in 1..4 : StageTooLarge(prog, j) => j <= i
    ELSE 0

\* The loop over the names: the first stage whose sum exceeds the previous
\* one's, or 0 when there is none.
FirstOffender(prog) ==
    IF \E i \in 1..4 : StageTooLarge(prog, i)
    THEN CHOOSE i \in 1..4 :
            /\ StageTooLarge(prog, i)
            /\ \A j \in 1..4 : StageTooLarge(prog, j) => i <= j
    ELSE 0

\* The check run on p_symptomatic as passed, before the rescaling.
CheckedPSymptomaticUnscaled(ps_passed, ps_scaled) == ps_passed

\* The p_symptomatic the check reads: the rescaled array.
CheckedPSymptomatic(ps_passed, ps_scaled) == ps_scaled

\* SEIRPlusPlusSimulation(**kwargs): TypeError for an undeclared or a
\* missing required keyword, InvalidParametersError naming the first stage
\* that is too large, else the simulation with its readout probabilities.
SEIRPlusPlusInit(kwargs) ==
    IF ~(DOMAIN kwargs \subseteq SEIRPlusPlusKeys)
       \/ "age_distribution" \notin DOMAIN kwargs
    THEN [outcome |-> "TypeError", name |-> None]
    ELSE
    LET age == kwargs["age_distribution"]
        has_ifr == "ifr" \in DOMAIN kwargs    \* `ifr is not None`
        ps0 == Arg(kwargs, "p_symptomatic", Broadcast(One))
        ph  == Arg(kwargs, "p_hospitalized", Broadcast(One))
        pc  == Arg(kwargs, "p_critical", Broadcast(One))
        pd  == Arg(kwargs, "p_dead", Broadcast(One))
        ppos == Arg(kwargs, "p_positive", Broadcast(One))
        adm == Arg(kwargs, "all_dead_multiplier", One)
        ps  == IF has_ifr
               THEN Rescale(age, ps0, ph, pc, pd, adm, kwargs["ifr"])
               ELSE ps0
        prog == PProgression(age, CheckedPSymptomatic(ps0, ps), ph, pc, pd)
        bad == FirstOffender(prog)
    IN  IF bad # 0
        THEN [outcome |-> InvalidParametersError, name |-> StageNames[bad]]
        ELSE [outcome |-> "ok", name |-> None,
              r0 |-> Arg(kwargs, "r0", Frac(16, 5)),
              readouts |->
                [symptomatic |-> ps,
                 positive |-> VMul(ppos, ps),
                 admitted_to_hospital |-> ph,
                 icu |-> pc,
                 dead |-> pd,
                 general_ward |-> [a \in Ages |-> FSub(One, pd[a])],
                 hospital_recovered |-> [a \in Ages |-> FSub(One, pc[a])],
                 general_ward_recovered |-> Broadcast(One),
                 all_dead |-> Broadcast(adm)]]

\* The construction of the pending simulation.
Construct ==
    /\ sim.outcome = "pending"
    /\ sim' = SEIRPlusPlusInit(sim_kwargs)
    /\ UNCHANGED sim_kwargs

\* Values a probability argument may take (2 is not a probability and is
\* what the check is there to reject).
PVals == {Zero, Frac(1, 2), One, Frac(2, 1)}
PHospitalizedVals == {One, Frac(2, 1)}
PCriticalVals == {Frac(1, 2), Frac(2, 1)}
PDeadVals == {Zero, One, Frac(2, 1)}
AgeDistributions == {[a \in Ages |-> Frac(1, NAges)],
                     [a \in Ages |-> Frac(a, 1)]}
IfrVals == {Frac(1, 4), One}
MultiplierVals == {One, Frac(2, 1)}

\* The keyword arguments a construction may be given; ifr is passed or
\* left at its default None.
SimKwargsChoices ==
    { LET base == [k \in {"age_distribution", "p_symptomatic",
                          "p_hospitalized", "p_critical", "p_dead",
                          "all_dead_multiplier"} |->
                    CASE k = "age_distribution" -> age
                      [] k = "p_symptomatic" -> ps
                      [] k = "p_hospitalized" -> Broadcast(ph)
                      [] k = "p_critical" -> Broadcast(pc)
                      [] k = "p_dead" -> Broadcast(pd)
                      [] k = "all_dead_multiplier" -> adm]
      IN  IF ifr = <<>> THEN base
          ELSE [k \in DOMAIN base \cup {"ifr"} |->
                    IF k = "ifr" THEN ifr[1] ELSE base[k]]
      : age \in AgeDistributions, ps \in [Ages -> PVals],
        ph \in PHospitalizedVals, pc \in PCriticalVals,
        pd \in PDeadVals, adm \in MultiplierVals,
        ifr \in {<<>>} \cup {<<v>> : v \in IfrVals} }

SimPending == sim_kwargs \in SimKwargsChoices /\ sim = [outcome |-> "pending"]
SimIdle == sim_kwargs = <<>> /\ sim = [outcome |-> "idle"]

-----------------------------------------------------------------------------
(***************************************************************************)
(* get_model_data, the calibration entry point, statement by statement,    *)
(* for cls = SEIRPlusPlusSimulation and t given as an array of days.       *)
(***************************************************************************)

\* kwargs.pop(key) for the keys in K, as a dict without them.
Without(d, K) == [k \in DOMAIN d \ K |-> d[k]]
\* d with d[key] = value.
With(d, key, value) ==
    [k \in DOMAIN d \cup {key} |-> IF k = key THEN value ELSE d[k]]

NoError == [type |-> None, msg |-> None]
Raise(type, msg) == [type |-> type, msg |-> msg]

\* np.exp on the logarithms the model passes: log_ifr = k * ln(2) is
\* represented by the integer k, and exp of it is 2^k.
Exp(k) == IF k >= 0 THEN Frac(2 ^ k, 1) ELSE Frac(1, 2 ^ (0 - k))

\* The days added to start_day by the time floor and to the last evaluation
\* time by the end of the simulated span.
TimeFloorDays == 1
EndPaddingDays == 2
\* The default of min_mitigation_spacing.
DefaultMitigationSpacing == 5

\* The floor test with the day's margin left out.
TimeFloorViolatedNoMargin(t_eval, t0) ==
    \E i \in 1..Len(t_eval) : FLt(t_eval[i], t0)

\* `(t_eval < t0 + 1).any()`
TimeFloorViolated(t_eval, t0) ==
    \E i \in 1..Len(t_eval) : FLt(t_eval[i], FAdd(t0, Frac(TimeFloorDays, 1)))

\* Lines 222-230: start_day is popped, tf set, the time floor checked.
GmdTimeFloor ==
    /\ gmd_pc = "time_floor"
    /\ LET t_eval == gmd_call.t
           t0 == gmd_kwargs["start_day"]
           tf == FAdd(t_eval[Len(t_eval)], Frac(EndPaddingDays, 1))
       IN  /\ gmd_kwargs' = Without(gmd_kwargs, {"start_day"})
           /\ gmd_local' = [t0 |-> t0, tf |-> tf]
           /\ IF TimeFloorViolated(t_eval, t0)
              THEN /\ gmd_pc' = "raised"
                   /\ gmd_err' = Raise(InvalidParametersError, "time_floor")
              ELSE /\ gmd_pc' = "ifr"
                   /\ gmd_err' = NoError
    /\ UNCHANGED <<gmd_call, gmd_trace>>

\* log_ifr handed on as ifr without the exponential.
IfrFromLogUnconverted(log_ifr) == Frac(log_ifr, 1)

\* `np.exp(kwargs.pop('log_ifr'))`
IfrFromLog(log_ifr) == Exp(log_ifr)

\* Lines 232-235: log_ifr becomes ifr unless both were passed.
GmdIfr ==
    /\ gmd_pc = "ifr"
    /\ IF "log_ifr" \in DOMAIN gmd_kwargs
       THEN IF "ifr" \in DOMAIN gmd_kwargs
            THEN /\ gmd_pc' = "raised"
                 /\ gmd_err' = Raise(InvalidParametersError, "both_ifr")
                 /\ UNCHANGED gmd_kwargs
            ELSE /\ gmd_kwargs' = With(Without(gmd_kwargs, {"log_ifr"}), "ifr",
                                    IfrFromLog(gmd_kwargs["log_ifr"]))
                 /\ gmd_pc' = "mitigation"
                 /\ UNCHANGED gmd_err
       ELSE /\ gmd_pc' = "mitigation"
            /\ UNCHANGED <<gmd_kwargs, gmd_err>>
    /\ UNCHANGED <<gmd_call, gmd_local, gmd_trace>>

\* The keyword convention of the mitigation schedule: mitigation_tN and
\* mitigation_factorN, N = 0, 1, ...
MitigationTimeKeys == <<"mitigation_t0", "mitigation_t1", "mitigation_t2">>
MitigationFactorKeys ==
    <<"mitigation_factor0", "mitigation_factor1", "mitigation_factor2">>
\* `'mitigation_t' in key or 'mitigation_factor' in key`
IsMitigationKey(key) ==
    \/ \E i \in 1..Len(MitigationTimeKeys) : key = MitigationTimeKeys[i]
    \/ \E i \in 1..Len(MitigationFactorKeys) : key = MitigationFactorKeys[i]

\* MitigationModel.init_from_kwargs(...).times: the breakpoint times in the
\* order of their keys.
RECURSIVE TimesFrom(_, _)
TimesFrom(kw, i) ==
    IF i > Len(MitigationTimeKeys) THEN <<>>
    ELSE IF MitigationTimeKeys[i] \in DOMAIN kw
         THEN <<kw[MitigationTimeKeys[i]]>> \o TimesFrom(kw, i + 1)
         ELSE TimesFrom(kw, i + 1)
MitigationTimes(kw) == TimesFrom(kw, 1)

\* The interpolant of the schedule needs strictly increasing times; it
\* raises ValueError otherwise.
StrictlyOrdered(times) ==
    \A i \in 1..(Len(times) - 1) : FLt(times[i], times[i + 1])

\* Lines 237-246: the schedule is built and its keys popped; a ValueError
\* of the builder is raised again as InvalidParametersError.
GmdMitigation ==
    /\ gmd_pc = "mitigation"
    /\ LET times == MitigationTimes(gmd_kwargs)
       IN  IF StrictlyOrdered(times)
           THEN /\ gmd_local' = [t0 |-> gmd_local.t0, tf |-> gmd_local.tf,
                                 mitigation |-> [times |-> times]]
                /\ gmd_kwargs' = Without(gmd_kwargs,
                                {k \in DOMAIN gmd_kwargs : IsMitigationKey(k)})
                /\ gmd_pc' = "spacing"
                /\ UNCHANGED gmd_err
           ELSE /\ gmd_pc' = "raised"
                /\ gmd_err' = Raise(InvalidParametersError, "ordered")
                /\ UNCHANGED <<gmd_kwargs, gmd_local>>
    /\ UNCHANGED <<gmd_call, gmd_trace>>

\* np.diff(times)
Diff(times) == [i \in 1..(Len(times) - 1) |-> FSub(times[i + 1], times[i])]

\* The spacing test rejecting a gap equal to the spacing as well.
UnderSpacedOrEqual(times, spacing) ==
    \E i \in DOMAIN Diff(times) : FLe(Diff(times)[i], spacing)

\* `any(np.diff(mitigation.times) < spacing)`
UnderSpaced(times, spacing) ==
    \E i \in DOMAIN Diff(times) : FLt(Diff(times)[i], spacing)

\* Lines 248-252: min_mitigation_spacing is popped (default 5) and the gaps
\* between consecutive breakpoints are checked against it.
GmdSpacing ==
    /\ gmd_pc = "spacing"
    /\ LET spacing == Arg(gmd_kwargs, "min_mitigation_spacing",
                          Frac(DefaultMitigationSpacing, 1))
       IN  /\ gmd_kwargs' = Without(gmd_kwargs, {"min_mitigation_spacing"})
           /\ IF UnderSpaced(gmd_local.mitigation.times, spacing)
              THEN /\ gmd_pc' = "raised"
                   /\ gmd_err' = Raise(InvalidParametersError, "spacing")
              ELSE /\ gmd_pc' = "delays"
                   /\ UNCHANGED gmd_err
    /\ UNCHANGED <<gmd_call, gmd_local, gmd_trace>>

\* The delay stages in the order the loop visits them.
DelayStages == <<"serial", "incubation", "hospitalized", "discharged",
                 "critical", "dead", "recovered", "all_dead">>

\* GammaDistribution(mean=, shape=) and GammaDistribution(mean=, std=).
GammaDistribution(mean, par, value) ==
    [dist |-> "gamma", mean |-> mean, par |-> par, value |-> value]

\* One pass of the loop body for stage `key` on the bag kw: the three keys
\* are popped, and a distribution is stored or the stage is reported bad.
DelayStep(kw, key) ==
    LET km == key \o "_mean"  ks == key \o "_std"  kk == key \o "_k"
        popped == Without(kw, {km, ks, kk})
        has_mean == km \in DOMAIN kw
        has_std == ks \in DOMAIN kw
        has_shape == kk \in DOMAIN kw
    IN  IF has_mean /\ has_shape
        THEN [kw |-> With(popped, key \o "_dist",
                          GammaDistribution(kw[km], "shape", kw[kk])),
              bad |-> FALSE]
        ELSE IF has_mean /\ has_std
        THEN [kw |-> With(popped, key \o "_dist",
                          GammaDistribution(kw[km], "std", kw[ks])),
              bad |-> FALSE]
        ELSE [kw |-> popped, bad |-> has_mean]

\* The loop from stage i on; it stops at the first bad stage.
RECURSIVE DelayLoop(_, _)
DelayLoop(kw, i) ==
    IF i > Len(DelayStages) THEN [kw |-> kw, bad |-> FALSE]
    ELSE LET r == DelayStep(kw, DelayStages[i])
         IN  IF r.bad THEN r ELSE DelayLoop(r.kw, i + 1)

\* Lines 254-269: age_distribution is popped and the delay distributions
\* are built; a mean with neither std nor shape is an error.
GmdDelays ==
    /\ gmd_pc = "delays"
    /\ LET r == DelayLoop(Without(gmd_kwargs, {"age_distribution"}), 1)
       IN  /\ gmd_kwargs' = r.kw
           /\ gmd_local' = With(gmd_local, "age_distribution",
                                gmd_kwargs["age_distribution"])
           /\ IF r.bad
              THEN /\ gmd_pc' = "raised"
                   /\ gmd_err' = Raise(InvalidParametersError, "delay")
              ELSE /\ gmd_pc' = "prefactors"
                   /\ UNCHANGED gmd_err
    /\ UNCHANGED <<gmd_call, gmd_trace>>

PrefactorKeys == <<"symptomatic", "positive", "hospitalized", "critical",
                   "dead">>

\* The loop over the probabilities: p_<key> becomes prefactor * p_<key>
\* (p_<key> read with default 1.) for every prefactor passed.
RECURSIVE PrefactorLoop(_, _)
PrefactorLoop(kw, i) ==
    IF i > Len(PrefactorKeys) THEN kw
    ELSE LET kp == ("p_" \o PrefactorKeys[i]) \o "_prefactor"
             pk == "p_" \o PrefactorKeys[i]
             popped == Without(kw, {kp})
         IN  IF kp \in DOMAIN kw
             THEN PrefactorLoop(
                    With(popped, pk,
                         VScale(Arg(kw, pk, Broadcast(One)), kw[kp])),
                    i + 1)
             ELSE PrefactorLoop(popped, i + 1)

\* Lines 271-279: the prefactors are applied, total_population and
\* initial_cases popped.
GmdPrefactors ==
    /\ gmd_pc = "prefactors"
    /\ gmd_kwargs' = Without(PrefactorLoop(gmd_kwargs, 1),
                             {"total_population", "initial_cases"})
    /\ gmd_local' = With(With(gmd_local, "total_population",
                              gmd_kwargs["total_population"]),
                         "initial_cases", gmd_kwargs["initial_cases"])
    /\ gmd_pc' = "construct"
    /\ UNCHANGED <<gmd_call, gmd_err, gmd_trace>>

\* A construction that asks the simulation for y0 before its own checks.
GmdConstructAfterY0 ==
    /\ gmd_pc = "construct"
    /\ LET ctor_kwargs == With(With(gmd_kwargs, "mitigation",
                                    gmd_local.mitigation),
                               "age_distribution", gmd_local.age_distribution)
           made == SEIRPlusPlusInit(ctor_kwargs)
       IN  /\ gmd_trace' = gmd_trace \o
                    <<[call |-> "get_y0"],
                      [call |-> "__init__", kwargs |-> ctor_kwargs]>>
           /\ IF made.outcome = "ok"
              THEN /\ gmd_local' = With(gmd_local, "sim", made)
                   /\ gmd_pc' = "get_y0"
                   /\ UNCHANGED gmd_err
              ELSE /\ gmd_pc' = "raised"
                   /\ gmd_err' = Raise(made.outcome, made.name)
                   /\ UNCHANGED gmd_local
    /\ UNCHANGED <<gmd_call, gmd_kwargs>>

\* Lines 281-283: sim = cls(mitigation=, age_distribution=, **kwargs); an
\* exception of the constructor leaves get_model_data.
GmdConstruct ==
    /\ gmd_pc = "construct"
    /\ LET ctor_kwargs == With(With(gmd_kwargs, "mitigation",
                                    gmd_local.mitigation),
                               "age_distribution", gmd_local.age_distribution)
           made == SEIRPlusPlusInit(ctor_kwargs)
       IN  /\ gmd_trace' = Append(gmd_trace,
                                  [call |-> "__init__", kwargs |-> ctor_kwargs])
           /\ IF made.outcome = "ok"
              THEN /\ gmd_local' = With(gmd_local, "sim", made)
                   /\ gmd_pc' = "get_y0"
                   /\ UNCHANGED gmd_err
              ELSE /\ gmd_pc' = "raised"
                   /\ gmd_err' = Raise(made.outcome, made.name)
                   /\ UNCHANGED gmd_local
    /\ UNCHANGED <<gmd_call, gmd_kwargs>>

\* get_y0: infected = initial_cases * age_distribution, susceptible =
\* total_population * age_distribution - infected.
get_y0(total_population, initial_cases, age_distribution) ==
    LET infected == VScale(age_distribution, initial_cases)
        population == VScale(age_distribution, total_population)
    IN  [infected |-> infected,
         susceptible |-> [a \in Ages |-> FSub(population[a], infected[a])]]

\* Line 285.
GmdGetY0 ==
    /\ gmd_pc = "get_y0"
    /\ gmd_local' = With(gmd_local, "y0",
                         get_y0(gmd_local.total_population,
                                gmd_local.initial_cases,
                                gmd_local.age_distribution))
    /\ gmd_trace' = Append(gmd_trace, [call |-> "get_y0"])
    /\ gmd_pc' = "run"
    /\ UNCHANGED <<gmd_call, gmd_kwargs, gmd_err>>

\* The default time step of a run, dt = .05 = 1 / DtPerDay.
DtPerDay == 20
\* The least integer not below the fraction x.
Ceil(x) == 0 - ((0 - x[1]) \div x[2])
\* np.arange(start_time, end_time + dt, dt): its length and last element.
GridLength(start_time, end_time, dt) ==
    Ceil(FDiv(FSub(FAdd(end_time, dt), start_time), dt))
GridLast(start_time, end_time, dt) ==
    FAdd(start_time,
         FMul(Frac(GridLength(start_time, end_time, dt) - 1, 1), dt))

\* Line 286: result = sim((t0, tf), y0): the grid from t0 to tf and one
\* stepper call for each index after the first.
GmdRun ==
    /\ gmd_pc = "run"
    /\ LET dt == Frac(1, DtPerDay)
           n_steps == GridLength(gmd_local.t0, gmd_local.tf, dt)
       IN  /\ gmd_local' = With(gmd_local, "result",
                    [t_first |-> gmd_local.t0,
                     t_last |-> GridLast(gmd_local.t0, gmd_local.tf, dt),
                     n_steps |-> n_steps])
           /\ gmd_trace' = Append(gmd_trace,
                    [call |-> "__call__", steps |-> n_steps - 1])
    /\ gmd_pc' = "interpolate"
    /\ UNCHANGED <<gmd_call, gmd_kwargs, gmd_err>>

\* The points interp1d is evaluated at: t_eval, and t_eval - 1 for the
\* increment series.
InterpolationPoints(t_eval) ==
    {t_eval[i] : i \in 1..Len(t_eval)}
    \cup {FSub(t_eval[i], One) : i \in 1..Len(t_eval)}

\* Lines 288-298: interp1d raises ValueError for a point outside the grid;
\* otherwise the table is returned.
GmdInterpolate ==
    /\ gmd_pc = "interpolate"
    /\ IF \A x \in InterpolationPoints(gmd_call.t) :
            /\ FLe(gmd_local.result.t_first, x)
            /\ FLe(x, gmd_local.result.t_last)
       THEN /\ gmd_pc' = "returned"
            /\ UNCHANGED gmd_err
       ELSE /\ gmd_pc' = "raised"
            /\ gmd_err' = Raise("ValueError", "interp1d")
    /\ UNCHANGED <<gmd_call, gmd_kwargs, gmd_local, gmd_trace>>

\* ---- the calls the model makes ----
\* Largest number of evaluation times and of mitigation breakpoints.
MaxEval == 2
MaxBreaks == 2

StartDay == Frac(10, 1)
EvalTimes == {Frac(21, 2), Frac(11, 1), Frac(14, 1)}
BreakTimes == {Frac(10, 1), Frac(12, 1), Frac(15, 1)}

EvalChoices == UNION {[1..n -> EvalTimes] : n \in 1..MaxEval}

\* mitigation_t0.., mitigation_factor0.. for n breakpoints.
MitigationChoices ==
    UNION {
        {[k \in {MitigationTimeKeys[i] : i \in 1..n}
               \cup {MitigationFactorKeys[i] : i \in 1..n} |->
            IF \E i \in 1..n : k = MitigationTimeKeys[i]
            THEN ts[CHOOSE i \in 1..n : k = MitigationTimeKeys[i]]
            ELSE Frac(1, 2)] : ts \in [1..n -> BreakTimes]}
        : n \in 0..MaxBreaks}

IfrChoices == {<<>>, "ifr" :> Frac(1, 4), "log_ifr" :> -2,
               ("ifr" :> Frac(1, 4)) @@ ("log_ifr" :> -2)}
SpacingChoices == {<<>>, "min_mitigation_spacing" :> Frac(2, 1)}
DelayChoices == {<<>>, "serial_mean" :> Frac(4, 1),
                 ("dead_mean" :> Frac(7, 1)) @@ ("dead_std" :> Frac(7, 1))}
PrefactorChoices == {<<>>, "p_symptomatic_prefactor" :> Frac(2, 1),
                     ("p_dead_prefactor" :> Frac(1, 2))
                        @@ ("p_dead" :> Broadcast(Frac(1, 2)))}

RequiredKwargs ==
    [start_day |-> StartDay,
     total_population |-> Frac(1000, 1),
     initial_cases |-> Frac(10, 1),
     age_distribution |-> [a \in Ages |-> Frac(1, NAges)]]

GmdCalls ==
    {[t |-> t, kwargs |-> RequiredKwargs @@ i @@ m @@ sp @@ d @@ pf] :
        t \in EvalChoices, i \in IfrChoices, m \in MitigationChoices,
        sp \in SpacingChoices, d \in DelayChoices, pf \in PrefactorChoices}

GmdPending ==
    /\ gmd_call \in GmdCalls
    /\ gmd_pc = "time_floor"
    /\ gmd_kwargs = gmd_call.kwargs
    /\ gmd_local = <<>>
    /\ gmd_err = NoError
    /\ gmd_trace = <<>>

GmdIdle ==
    /\ gmd_call = <<>>
    /\ gmd_pc = "idle"
    /\ gmd_kwargs = <<>>
    /\ gmd_local = <<>>
    /\ gmd_err = NoError
    /\ gmd_trace = <<>>

-----------------------------------------------------------------------------
(***************************************************************************)
(* NonMarkovianSEIRSimulationBase.__call__ and step: the renewal equation. *)
(* Time index count of the code is position count + 1 of a sequence.       *)
(***************************************************************************)

\* Largest number of stepper calls of a run.
MaxSteps == 2

\* seasonal_forcing(t) = 1 + seasonal_forcing_amp * cos(phase(t)); c is the
\* cosine at the step's time.
seasonal_forcing(amp, c) == FAdd(One, FMul(amp, c))

\* The reproduction number with r0 left out of the product.
RtWithoutR0(r0, mitigation_t, forcing_t) == FMul(mitigation_t, forcing_t)

\* Rt = r0 * mitigation(t[count]) * seasonal_forcing(t[count])
Rt(r0, mitigation_t, forcing_t) == FMul(FMul(r0, mitigation_t), forcing_t)

\* j_m for one age group: np.dot(infected[count-1::-1], serial_pdf[:count]).
RECURSIVE DotReversed(_, _, _, _)
DotReversed(infected_a, serial_pdf, count, k) ==
    IF k = count THEN Zero
    ELSE FAdd(FMul(infected_a[(count - 1 - k) + 1], serial_pdf[k + 1]),
              DotReversed(infected_a, serial_pdf, count, k + 1))

\* A stepper that fills infected from index count to the end.
StepWriteToEnd(y, count, new_infected) ==
    [y EXCEPT
        !.infected = [a \in Ages |->
            [i \in 1..Len(y.infected[a]) |->
                IF i >= count + 1 THEN new_infected[a] ELSE y.infected[a][i]]],
        !.susceptible = [a \in Ages |->
            [y.susceptible[a] EXCEPT ![count + 1] =
                FSub(y.susceptible[a][count], new_infected[a])]]]

\* A stepper that records the new infections and leaves the susceptible
\* population as it was.
StepWriteUndepleted(y, count, new_infected) ==
    [y EXCEPT
        !.infected = [a \in Ages |->
            [y.infected[a] EXCEPT ![count + 1] = new_infected[a]]],
        !.susceptible = [a \in Ages |->
            [y.susceptible[a] EXCEPT ![count + 1] = y.susceptible[a][count]]]]

\* The arrays after step(state, count, dt): only index count of infected
\* and of susceptible is assigned.
StepWrite(y, count, new_infected) ==
    [y EXCEPT
        !.infected = [a \in Ages |->
            [y.infected[a] EXCEPT ![count + 1] = new_infected[a]]],
        !.susceptible = [a \in Ages |->
            [y.susceptible[a] EXCEPT ![count + 1] =
                FSub(y.susceptible[a][count], new_infected[a])]]]

step(y, count, dt, r0, mitigation_t, forcing_t, serial_pdf, total_population) ==
    LET j_m == [a \in Ages |-> DotReversed(y.infected[a], serial_pdf, count, 0)]
        j_i == VSum(j_m)
        new_infected_i == [a \in Ages |->
            FDiv(FMul(FMul(FMul(dt, Rt(r0, mitigation_t, forcing_t)),
                           y.susceptible[a][count]),
                      j_i),
                 total_population)]
    IN  StepWrite(y, count, new_infected_i)

\* Lines 151-162: the grid and the arrays, zero but for the initial values.
RunSetup ==
    /\ run_pc = "setup"
    /\ run_y' = [key \in DOMAIN run_in.y0 |->
                    [a \in Ages |->
                        [i \in 1..run_in.n_steps |->
                            IF i = 1 THEN run_in.y0[key][a] ELSE Zero]]]
    /\ run_count' = 1
    /\ run_pc' = "step"
    /\ UNCHANGED <<run_in, run_calls>>

\* Lines 164-165: one pass of `for count in range(1, n_steps)`; the values
\* of the mitigation and of the cosine at t[count] are any of the model's.
RunStep(mitigation_t, c) ==
    /\ run_pc = "step"
    /\ run_count < run_in.n_steps
    /\ run_y' = step(run_y, run_count, run_in.dt, run_in.r0, mitigation_t,
                     seasonal_forcing(run_in.seasonal_forcing_amp, c),
                     run_in.serial_pdf, run_in.total_population)
    /\ run_count' = run_count + 1
    /\ run_calls' = Append(run_calls, run_count)
    /\ UNCHANGED <<run_in, run_pc>>

\* Lines 167-170: the loop is over and the result returned.
RunReturn ==
    /\ run_pc = "step"
    /\ run_count = run_in.n_steps
    /\ run_pc' = "returned"
    /\ UNCHANGED <<run_in, run_count, run_y, run_calls>>

R0Vals == {Zero, Frac(2, 1)}
DtVals == {Frac(1, 2), One}
KernelVals == {Zero, One}
MitigationVals == {One, Frac(1, 2)}
CosVals == {Frac(-1, 1), One}

\* y0 is what get_y0 returns, alone or with a compartment the caller added.
ExtraCompartments == {<<>>, "recovered" :> [a \in Ages |-> One]}

\* A simulation with its population set by get_y0, and a run over k steps.
RunInputs ==
    {[r0 |-> r0,
      seasonal_forcing_amp |-> Frac(1, 2),
      dt |-> dt,
      n_steps |-> GridLength(Zero, FMul(Frac(k, 1), dt), dt),
      serial_pdf |-> pdf,
      total_population |-> Frac(2 * NAges, 1),
      y0 |-> get_y0(Frac(2 * NAges, 1), cases,
                    [a \in Ages |-> Frac(1, NAges)]) @@ extra] :
        r0 \in R0Vals, dt \in DtVals, k \in 1..MaxSteps,
        pdf \in [1..MaxSteps -> KernelVals],
        cases \in {Frac(NAges, 1), Frac(NAges, 2)},
        extra \in ExtraCompartments}

RunPending ==
    /\ run_in \in RunInputs
    /\ run_pc = "setup"
    /\ run_count = 0
    /\ run_y = <<>>
    /\ run_calls = <<>>

RunIdle ==
    /\ run_in = <<>>
    /\ run_pc = "idle"
    /\ run_count = 0
    /\ run_y = <<>>
    /\ run_calls = <<>>

-----------------------------------------------------------------------------
(***************************************************************************)
(* HDFBackend: the metadata the constructor writes and the properties that *)
(* read it back.  The file is a dict of groups, a group a dict of datasets. *)
(***************************************************************************)

\* A guess or an uncertainty that is None.
Absent == <<>>

\* The positional parameters of SampleParameter.__init__ after self.
SampleParameterArity == 4

\* Names h5py can store with string_dtype(encoding='ascii').
AsciiNames == {"r0", "beta", "gamma", "delta"}
\* The stored bytes of a name and the text decoded from stored bytes.
Encode(name) == [bytes |-> name]
Decode(b) == b.bytes

\* nanify / denanify
nanify(x) == IF x # Absent THEN x ELSE NaN
denanify(x) == IF IsFinite(x) THEN x ELSE Absent

\* getattr(par, attr): the attribute, or AttributeError.
HasAttr(par, attr) == attr \in DOMAIN par

\* An empty file as the emcee backend leaves it: no group, no attribute.
EmptyFile == [attrs |-> <<>>]

Ok(file) == [file |-> file, err |-> None]
Failed(file, err) == [file |-> file, err |-> err]

\* f.create_group('fixed_values') and one dataset per item.
WriteFixedValues(file, args) ==
    IF "fixed_values" \notin DOMAIN args THEN Ok(file)
    ELSE IF "fixed_values" \in DOMAIN file THEN Failed(file, "ValueError")
    ELSE Ok(With(file, "fixed_values", args["fixed_values"]))

\* The datasets written for the attributes in `attrs`, in that order,
\* stopping at the first attribute a parameter does not have.
RECURSIVE WriteAttrs(_, _, _, _)
WriteAttrs(file, pars, attrs, i) ==
    IF i > Len(attrs) THEN Ok(file)
    ELSE IF \E k \in 1..Len(pars) : ~HasAttr(pars[k], attrs[i])
    THEN Failed(file, "AttributeError")
    ELSE WriteAttrs(
            With(file, "fit_parameters",
                 With(file["fit_parameters"], attrs[i],
                      [k \in 1..Len(pars) |-> nanify(pars[k][attrs[i]])])),
            pars, attrs, i + 1)

\* The attributes stored through nanify, in the order they are written.
WrittenAttrs == <<"guess", "uncertainty", "sigma">>

\* The group fit_parameters: names, bounds, then the nanified attributes.
WriteFitParameters(file, args) ==
    IF "fit_parameters" \notin DOMAIN args THEN Ok(file)
    ELSE IF "fit_parameters" \in DOMAIN file THEN Failed(file, "ValueError")
    ELSE
    LET pars == args["fit_parameters"]
        f0 == With(file, "fit_parameters", <<>>)
    IN  IF \E k \in 1..Len(pars) : pars[k].name \notin AsciiNames
        THEN Failed(f0, "UnicodeEncodeError")
        ELSE
        LET f1 == With(f0, "fit_parameters",
                       [d \in {"names", "bounds"} |->
                          IF d = "names"
                          THEN [k \in 1..Len(pars) |-> Encode(pars[k].name)]
                          ELSE [k \in 1..Len(pars) |-> pars[k].bounds]])
        IN  WriteAttrs(f1, pars, WrittenAttrs, 1)

\* f.attrs['simulator'] = simulator.__name__
WriteSimulator(file, args) ==
    IF "simulator" \notin DOMAIN args THEN Ok(file)
    ELSE Ok(With(file, "attrs",
                 With(file["attrs"], "simulator", args["simulator"])))

\* The data written after the first with block: a CaseData as group data, a
\* DataFrame as df_data.
WriteData(file, args) ==
    IF "data" \notin DOMAIN args THEN Ok(file)
    ELSE IF args["data"] = "CaseData"
    THEN (IF "data" \in DOMAIN file THEN Failed(file, "ValueError")
          ELSE Ok(With(file, "data", "CaseData")))
    ELSE Ok(With(file, "df_data", "DataFrame"))

\* HDFBackend.__init__: the writes in their order; an exception ends the
\* constructor and leaves in the file what was written before it.
HDFBackendInit(file, args) ==
    LET r1 == WriteFixedValues(file, args)
        r2 == IF r1.err # None THEN r1 ELSE WriteFitParameters(r1.file, args)
        r3 == IF r2.err # None THEN r2 ELSE WriteSimulator(r2.file, args)
        r4 == IF r3.err # None THEN r3 ELSE WriteData(r3.file, args)
    IN  r4

\* self.open(...) / pandas opening the file: one more open handle.
Open(h) == h + 1
Close(h) == h - 1

\* A with statement that is left open when its body raises.
WithExitOnReturnOnly(h, raised) == IF raised THEN h ELSE Close(h)

\* The end of `with self.open(...) as f:`: the handle is released whether the
\* body returns or raises.
WithExit(h, raised) == Close(h)

\* The handles open when the constructor ends: the first with block, then
\* the second one for a CaseData or pandas' own handle for a DataFrame.
HandlesAfterInit(h, file, args) ==
    LET r1 == WriteFixedValues(file, args)
        r2 == IF r1.err # None THEN r1 ELSE WriteFitParameters(r1.file, args)
        r3 == IF r2.err # None THEN r2 ELSE WriteSimulator(r2.file, args)
        h1 == WithExit(Open(h), r3.err # None)
    IN  IF r3.err # None \/ "data" \notin DOMAIN args THEN h1
        ELSE IF args["data"] = "CaseData"
        THEN WithExit(Open(h1), WriteData(r3.file, args).err # None)
        ELSE Close(Open(h1))

\* backend = HDFBackend(filename, fit_parameters=, fixed_values=, ...)
HDFCreate ==
    /\ hdf_pc = "new"
    /\ LET r == HDFBackendInit(hdf_file, hdf_in)
       IN  /\ hdf_file' = r.file
           /\ hdf_err' = r.err
           /\ hdf_pc' = IF r.err = None THEN "ready" ELSE "failed"
    /\ hdf_open' = HandlesAfterInit(hdf_open, hdf_file, hdf_in)
    /\ UNCHANGED <<hdf_in, hdf_read>>

\* backend = HDFBackend(filename): a backend on the file as it is.
HDFReopen ==
    /\ hdf_pc = "failed"
    /\ LET r == HDFBackendInit(hdf_file, <<>>)
       IN  /\ hdf_file' = r.file
           /\ hdf_pc' = IF r.err = None THEN "ready" ELSE "failed"
    /\ hdf_open' = HandlesAfterInit(hdf_open, hdf_file, <<>>)
    /\ UNCHANGED <<hdf_in, hdf_err, hdf_read>>

Returned(prop, value) == [prop |-> prop, outcome |-> "ok", value |-> value]
Raised(prop, err) == [prop |-> prop, outcome |-> err, value |-> Absent]

\* The property fixed_values.
fixed_values(file) ==
    IF "fixed_values" \notin DOMAIN file
    THEN Raised("fixed_values", "KeyError")
    ELSE Returned("fixed_values", file["fixed_values"])

\* SampleParameter(*args): TypeError unless as many arguments as declared.
NewSampleParameter(args) ==
    IF Len(args) # SampleParameterArity THEN "TypeError"
    ELSE SampleParameter(args[1], args[2], args[3], args[4])

\* The attributes read back through denanify.
ReadAttrs == <<"guess", "uncertainty", "sigma">>

\* The loop of the property fit_parameters from name i on.
RECURSIVE ReadPars(_, _, _)
ReadPars(group, i, pars) ==
    IF i > Len(group["names"]) THEN Returned("fit_parameters", pars)
    ELSE IF "bounds" \notin DOMAIN group
            \/ \E j \in 1..Len(ReadAttrs) : ReadAttrs[j] \notin DOMAIN group
    THEN Raised("fit_parameters", "KeyError")
    ELSE LET args == <<Decode(group["names"][i]), group["bounds"][i]>>
                     \o [j \in 1..Len(ReadAttrs) |->
                            denanify(group[ReadAttrs[j]][i])]
         IN  IF NewSampleParameter(args) = "TypeError"
             THEN Raised("fit_parameters", "TypeError")
             ELSE ReadPars(group, i + 1,
                           Append(pars, NewSampleParameter(args)))

\* The property fit_parameters.
fit_parameters_property(file) ==
    IF "fit_parameters" \notin DOMAIN file
       \/ "names" \notin DOMAIN file["fit_parameters"]
    THEN Raised("fit_parameters", "KeyError")
    ELSE ReadPars(file["fit_parameters"], 1, <<>>)

\* The simulation classes pydemic.models re-exports.
RegistryClasses ==
    {"SEIRModelSimulation", "SEIRPlusPlusSimulation",
     "SEIRPlusPlusSimulationOnsetAndDeath",
     "SEIRPlusPlusSimulationHospitalCriticalAndDeath",
     "NeherModelSimulation"}

\* The submodules the imports of pydemic/models/__init__.py bind as
\* attributes of the package.
Submodules == {"seir", "seirpp", "neher"}

\* getattr(models, name): the attribute of that name, or AttributeError.
GetattrModels(name) ==
    IF name \in RegistryClasses THEN [kind |-> "class", name |-> name]
    ELSE IF name \in Submodules THEN [kind |-> "module", name |-> name]
    ELSE [kind |-> "AttributeError", name |-> name]

\* The try block of the property simulator.
SimulatorLookup(name) ==
    IF GetattrModels(name).kind = "AttributeError"
    THEN [kind |-> "str", name |-> name]
    ELSE GetattrModels(name)

\* The property simulator.
simulator(file) ==
    IF "simulator" \in DOMAIN file["attrs"]
    THEN Returned("simulator", SimulatorLookup(file["attrs"]["simulator"]))
    ELSE Returned("simulator", [kind |-> "None", name |-> None])

\* The property data; pandas reads df_data through a handle of its own.
data(file) ==
    IF "data" \in DOMAIN file THEN Returned("data", "CaseData")
    ELSE IF "df_data" \in DOMAIN file THEN Returned("data", "DataFrame")
    ELSE Returned("data", None)

ReadFixedValues ==
    /\ hdf_pc = "ready"
    /\ hdf_read' = fixed_values(hdf_file)
    /\ hdf_open' = WithExit(Open(hdf_open), hdf_read'.outcome # "ok")
    /\ UNCHANGED <<hdf_in, hdf_file, hdf_pc, hdf_err>>

ReadFitParameters ==
    /\ hdf_pc = "ready"
    /\ hdf_read' = fit_parameters_property(hdf_file)
    /\ hdf_open' = WithExit(Open(hdf_open), hdf_read'.outcome # "ok")
    /\ UNCHANGED <<hdf_in, hdf_file, hdf_pc, hdf_err>>

ReadData ==
    /\ hdf_pc = "ready"
    /\ hdf_read' = data(hdf_file)
    /\ hdf_open' =
          LET h == Open(hdf_open)
              inner == IF hdf_read'.value = "DataFrame" THEN Close(Open(h))
                       ELSE h
          IN  WithExit(inner, hdf_read'.outcome # "ok")
    /\ UNCHANGED <<hdf_in, hdf_file, hdf_pc, hdf_err>>

ReadSimulator ==
    /\ hdf_pc = "ready"
    /\ hdf_read' = simulator(hdf_file)
    /\ hdf_open' = WithExit(Open(hdf_open), hdf_read'.outcome # "ok")
    /\ UNCHANGED <<hdf_in, hdf_file, hdf_pc, hdf_err>>

\* ---- the constructions the model makes ----
GuessVals == {Absent, Frac(1, 2)}
UncertaintyVals == {Absent, Frac(1, 10)}
FitParameterLists ==
    UNION {
        {[i \in 1..n |-> SampleParameter(ParNames[i], <<Zero, One>>,
                                         g[i], u[i])] :
            g \in [1..n -> GuessVals], u \in [1..n -> UncertaintyVals]}
        : n \in 0..MaxParams}
FixedValuesChoices == {<<>>, "r0" :> Frac(16, 5),
                       ("r0" :> Frac(16, 5)) @@ ("p_dead" :> One)}
SimulatorChoices == {"SEIRPlusPlusSimulation", "MySimulation", "seirpp"}
DataChoices == {"CaseData", "DataFrame"}

\* Every argument is passed or left at None.
Optional(key, S) == {<<>>} \cup {key :> v : v \in S}
HDFArgs ==
    {a @@ b @@ c @@ d :
        a \in Optional("fit_parameters", FitParameterLists),
        b \in Optional("fixed_values", FixedValuesChoices),
        c \in Optional("simulator", SimulatorChoices),
        d \in Optional("data", DataChoices)}

HDFPending ==
    /\ hdf_in \in HDFArgs
    /\ hdf_file = EmptyFile
    /\ hdf_pc = "new"
    /\ hdf_err = None
    /\ hdf_read = [prop |-> None, outcome |-> None, value |-> Absent]
    /\ hdf_open = 0

HDFIdle ==
    /\ hdf_in = <<>>
    /\ hdf_file = EmptyFile
    /\ hdf_pc = "idle"
    /\ hdf_err = None
    /\ hdf_read = [prop |-> None, outcome |-> None, value |-> Absent]
    /\ hdf_open = 0

-----------------------------------------------------------------------------
(***************************************************************************)
(* LikelihoodEstimatorBase.sample_uniform: the grid of every parameter,    *)
(* their Cartesian product, and the estimator called on every row.         *)
(***************************************************************************)

\* Largest number of grid points asked for one parameter.
MaxPoints == 3

RECURSIVE Factorial(_)
Factorial(n) == IF n <= 1 THEN 1 ELSE n * Factorial(n - 1)

\* The width of the bounds the grids are laid over: every spacing
\* (upper - lower) / (num - 1) with num <= MaxPoints is then an integer.
GridUnit == Factorial(MaxPoints - 1)

\* np.linspace(start, stop, num): num points, both ends included; one point
\* is start alone.
Linspace(start, stop, num) ==
    IF num = 1 THEN <<start>>
    ELSE [i \in 1..num |-> start + ((i - 1) * (stop - start)) \div (num - 1)]

\* num_points as the method uses it: a mapping is kept, a count is given to
\* every parameter.
NumPointsDict(pars, num_points) ==
    IF num_points.isdict THEN num_points.value
    ELSE [name \in {pars[i].name : i \in 1..Len(pars)} |-> num_points.value]

\* samples.values(): the grids in the order of the parameters.
Samples(pars, num_points) ==
    [i \in 1..Len(pars) |->
        Linspace(pars[i].bounds[1], pars[i].bounds[2],
                 NumPointsDict(pars, num_points)[pars[i].name])]

\* itertools.product(*grids) as a list: the last grid advances fastest; the
\* product of no grid is the one empty row.
RECURSIVE Product(_)
Product(grids) ==
    IF grids = <<>> THEN << <<>> >>
    ELSE LET rest == Product(Tail(grids))
             h == Head(grids)
             m == Len(rest)
         IN  [k \in 1..(Len(h) * m) |->
                <<h[((k - 1) \div m) + 1]>> \o rest[((k - 1) % m) + 1]]

\* The sum of the values of a mapping.
RECURSIVE DictSum(_)
DictSum(d) ==
    IF DOMAIN d = {} THEN 0
    ELSE LET k == CHOOSE x \in DOMAIN d : TRUE
         IN  d[k] + DictSum(Without(d, {k}))

\* get_log_likelihood of the subclass under test: a Gaussian-like score
\* -sum(values), or the same value everywhere.
LikelihoodKinds == {"neg_sum", "flat"}
get_log_likelihood(kind, parameters) ==
    IF kind = "neg_sum" THEN 0 - DictSum(parameters) ELSE 0

\* self.__call__(theta) as an entry of np.array(likelihoods): -inf outside
\* the bounds, the subclass's value as a float inside.
CallAsFloat(pars, kind, th) ==
    IF ~check_within_bounds(pars, th) THEN <<-1, 0>>
    ELSE Frac(get_log_likelihood(kind, ZipDict(fit_names(pars), th)), 1)

\* A map that hands the results back last first.
PoolMapReversed(pars, kind, values) ==
    [i \in 1..Len(values) |->
        CallAsFloat(pars, kind, values[Len(values) + 1 - i])]

\* pool.map(self.__call__, values): the results in the order of values.
PoolMap(pars, kind, values) ==
    [i \in 1..Len(values) |-> CallAsFloat(pars, kind, values[i])]

\* [self.__call__(value) for value in values]
ListMap(pars, kind, values) ==
    [i \in 1..Len(values) |-> CallAsFloat(pars, kind, values[i])]

\* The get_log_likelihood invocations the calls on `values` make, from row i.
RECURSIVE LikelihoodCalls(_, _, _)
LikelihoodCalls(pars, values, i) ==
    IF i > Len(values) THEN <<>>
    ELSE (IF check_within_bounds(pars, values[i])
          THEN <<ZipDict(fit_names(pars), values[i])>> ELSE <<>>)
         \o LikelihoodCalls(pars, values, i + 1)

\* estimator.sample_uniform(num_points, pool)
SampleUniform ==
    /\ est_op = "none"
    /\ uni_in # <<>>
    /\ LET values == Product(Samples(fit_parameters, uni_in.num_points))
       IN  /\ est_ret' =
                [values |-> values,
                 likelihoods |->
                    IF uni_in.pool # None
                    THEN PoolMap(fit_parameters, uni_in.likelihood, values)
                    ELSE ListMap(fit_parameters, uni_in.likelihood, values)]
           /\ call_log' = values
           /\ ll_calls' = LikelihoodCalls(fit_parameters, values, 1)
    /\ est_op' = "sample_uniform"
    /\ UNCHANGED <<fit_parameters, theta, uni_in>>

\* ---- the calls the model makes ----
GridBoundVals == {0, GridUnit}
GridParameterLists ==
    UNION {
        {[i \in 1..n |-> SampleParameter(ParNames[i], b[i], 0, 1)] :
            b \in [1..n -> GridBoundVals \X GridBoundVals]}
        : n \in 0..MaxParams}
\* num_points is one count for every parameter or a mapping by name.
SharedCounts == {[isdict |-> FALSE, value |-> n] : n \in 0..MaxPoints}
CountMappings(pars) ==
    {[isdict |-> TRUE, value |-> d] :
        d \in [{pars[i].name : i \in 1..Len(pars)} -> 1..MaxPoints]}
PoolChoices == {None, "Pool"}

UniformPending ==
    /\ fit_parameters \in GridParameterLists
    /\ \E pool \in PoolChoices, kind \in LikelihoodKinds :
          \/ \E np \in SharedCounts :
                uni_in = [num_points |-> np, pool |-> pool, likelihood |-> kind]
          \/ \E np \in CountMappings(fit_parameters) :
                uni_in = [num_points |-> np, pool |-> pool, likelihood |-> kind]
    /\ theta = <<>>
    /\ est_op = "none"
    /\ est_ret = NoRet
    /\ call_log = <<>>
    /\ ll_calls = <<>>

-----------------------------------------------------------------------------
(***************************************************************************)
(* LikelihoodEstimatorBase.sample_emcee: the sampling loop and its         *)
(* autocorrelation checkpoints.  All ndim columns of a row of the history  *)
(* receive the same number, so a row is modelled by that number; the       *)
(* estimate taken at an iteration is represented by the iteration.         *)
(***************************************************************************)

\* Largest number of iterations and largest checkpoint interval of a run.
MaxIterations == 8
MaxCheckpointSteps == 4

\* np.zeros((int(steps // checkpoint_steps) + 1, ndim))
HistoryRows(steps, checkpoint_steps) == (steps \div checkpoint_steps) + 1

\* The test that takes a checkpoint one iteration late.
IsCheckpointLate(iteration, checkpoint_steps) ==
    (iteration - 1) % checkpoint_steps = 0

\* `if sampler.iteration % checkpoint_steps: continue` falls through.
IsCheckpoint(iteration, checkpoint_steps) ==
    iteration % checkpoint_steps = 0

\* np.mean(sampler.get_autocorr_time(tol=0)) for the chain of that length.
MeanAutocorrTime(iteration) == iteration

\* Lines 97-118: pool, walkers, backend, sampler, index and the history.
EmceeSetup ==
    /\ em_pc = "start"
    /\ IF em_in.checkpoint_steps = 0
       THEN /\ em_pc' = "raised"
            /\ em_err' = "ZeroDivisionError"
            /\ UNCHANGED em_hist
       ELSE /\ em_pc' = "loop"
            /\ em_hist' = [r \in 1..HistoryRows(em_in.steps,
                                                em_in.checkpoint_steps) |-> 0]
            /\ UNCHANGED em_err
    /\ em_iter' = 0
    /\ em_index' = 0
    /\ em_log' = <<>>
    /\ UNCHANGED em_in

\* One pass of the for loop: the sampler advances by one iteration, then
\* the body either continues or takes a checkpoint.
EmceeIterate ==
    /\ em_pc = "loop"
    /\ em_iter < em_in.steps
    /\ em_iter' = em_iter + 1
    /\ IF ~IsCheckpoint(em_iter', em_in.checkpoint_steps)
       THEN UNCHANGED <<em_pc, em_index, em_hist, em_log, em_err>>
       ELSE /\ em_log' = Append(em_log, em_iter')
            /\ IF em_index + 1 > Len(em_hist)
               THEN /\ em_pc' = "raised"
                    /\ em_err' = "IndexError"
                    /\ UNCHANGED <<em_index, em_hist>>
               ELSE /\ em_hist' = [em_hist EXCEPT ![em_index + 1] =
                                        MeanAutocorrTime(em_iter')]
                    /\ em_index' = em_index + 1
                    /\ UNCHANGED <<em_pc, em_err>>
    /\ UNCHANGED em_in

\* `return sampler, autocorrelations` once the sampler is exhausted.
EmceeReturn ==
    /\ em_pc = "loop"
    /\ em_iter >= em_in.steps
    /\ em_pc' = "returned"
    /\ UNCHANGED <<em_in, em_iter, em_index, em_hist, em_log, em_err>>

\* ---- the calls the model makes ----
BackendFilenames == {None, "chain.h5"}
EmceePending ==
    /\ em_in \in [steps : 0..MaxIterations,
                  checkpoint_steps : 0..MaxCheckpointSteps,
                  backend_filename : BackendFilenames]
    /\ em_pc = "start"
    /\ em_iter = 0
    /\ em_index = 0
    /\ em_hist = <<>>
    /\ em_log = <<>>
    /\ em_err = None

EmceeIdle ==
    /\ em_in = <<>>
    /\ em_pc = "idle"
    /\ em_iter = 0
    /\ em_index = 0
    /\ em_hist = <<>>
    /\ em_log = <<>>
    /\ em_err = None

-----------------------------------------------------------------------------
(***************************************************************************)
(* evolve, the step of the discrete driver, statement by statement.  A     *)
(* Population or Parameters record is an AttrDict: an attribute is a key.  *)
(* The compartments of a population are numpy arrays over the age groups   *)
(* (as run builds them) or dicts keyed by age group.                       *)
(***************************************************************************)

\* The keys Parameters and Population declare.
ParametersKeys ==
    {"imports_per_day", "time_delta_days", "isolatedFrac", "infectionRate",
     "incubtation_time", "recoveryRate", "hospitalizedRate", "dischargeRate",
     "criticalRate", "stabilizationRate", "deathRate", "overflowDeathRate",
     "ICU_beds"}
PopulationKeys ==
    {"infections", "time", "susceptible", "exposed", "hospitalized",
     "critical", "overflow"}

\* sum(x): the sum of the entries of an array, of the keys of a dict.
RECURSIVE SumValues(_, _)
SumValues(x, k) == IF k = 0 THEN 0 ELSE x[k] + SumValues(x, k - 1)
RECURSIVE SumKeys(_)
SumKeys(K) ==
    IF K = {} THEN 0
    ELSE LET k == CHOOSE x \in K : TRUE IN k + SumKeys(K \ {k})
PySum(kind, x) ==
    IF kind = "dict" THEN SumKeys(DOMAIN x) ELSE SumValues(x, Len(x))

\* x.keys().sort(): an ndarray has no keys, and the keys view of a dict has
\* no sort.
KeysSort(kind, x) ==
    IF kind = "dict"
    THEN [err |-> "AttributeError", at |-> "dict_keys.sort"]
    ELSE [err |-> "AttributeError", at |-> "ndarray.keys"]

\* Line 61: frac_infected = sum(population.infectious) / pars.population_served
EvolveFracInfected ==
    /\ ev_pc = "frac_infected"
    /\ IF ~HasAttr(ev_in.population, "infectious")
          \/ ~HasAttr(ev_in.pars, "population_served")
       THEN /\ ev_pc' = "raised"
            /\ ev_err' = [err |-> "AttributeError", at |-> "frac_infected"]
            /\ UNCHANGED ev_local
       ELSE /\ ev_pc' = "new_time"
            /\ ev_local' =
                  With(ev_local, "frac_infected",
                       Frac(PySum(ev_in.kind, ev_in.population["infectious"]),
                            ev_in.pars["population_served"]))
            /\ UNCHANGED ev_err
    /\ UNCHANGED <<ev_in, ev_ret>>

\* Line 62: new_time = population.time + pars.time_delta
EvolveNewTime ==
    /\ ev_pc = "new_time"
    /\ IF ~HasAttr(ev_in.population, "time") \/ ~HasAttr(ev_in.pars, "time_delta")
       THEN /\ ev_pc' = "raised"
            /\ ev_err' = [err |-> "AttributeError", at |-> "new_time"]
            /\ UNCHANGED ev_local
       ELSE /\ ev_pc' = "age_groups"
            /\ ev_local' = With(ev_local, "new_time",
                                ev_in.population["time"]
                                    + ev_in.pars["time_delta"])
            /\ UNCHANGED ev_err
    /\ UNCHANGED <<ev_in, ev_ret>>

\* Line 63: age_groups = population.infectious.keys().sort()
EvolveAgeGroups ==
    /\ ev_pc = "age_groups"
    /\ ev_pc' = "raised"
    /\ ev_err' = KeysSort(ev_in.kind, ev_in.population["infectious"])
    /\ UNCHANGED <<ev_in, ev_local, ev_ret>>

\* ---- the calls the model makes ----
CountVals == {0, 1, 2}
ServedVals == {4, 8}
\* The attributes evolve reads that the record classes do not declare.
UndeclaredParameters == {"population_served", "time_delta"}

EvolveInputs ==
    {[kind |-> kind,
      population |->
          [k \in PopulationKeys \cup extra_pop |->
              IF k = "time" THEN 0
              ELSE IF k = "infectious" THEN infectious
              ELSE [a \in Ages |-> 1]],
      pars |->
          [k \in ParametersKeys \cup extra_pars |->
              IF k = "population_served" THEN served ELSE 1]] :
        kind \in {"ndarray", "dict"},
        extra_pop \in SUBSET {"infectious"},
        extra_pars \in SUBSET UndeclaredParameters,
        infectious \in [Ages -> CountVals],
        served \in ServedVals}

EvolvePending ==
    /\ ev_in \in EvolveInputs
    /\ ev_pc = "frac_infected"
    /\ ev_local = <<>>
    /\ ev_err = None
    /\ ev_ret = None

EvolveIdle ==
    /\ ev_in = <<>>
    /\ ev_pc = "idle"
    /\ ev_local = <<>>
    /\ ev_err = None
    /\ ev_ret = None

-----------------------------------------------------------------------------
(***************************************************************************)
(* simulate, the outer driver of the discrete model, statement by          *)
(* statement.  The function reads the names initialState, tMax,            *)
(* modelParams and collectTotals from the module's global namespace, which *)
(* run.py does not bind; a caller may have bound any of them.              *)
(***************************************************************************)

\* The names run.py binds at module level.
RunModuleGlobals ==
    {"np", "AttrDict", "Parameters", "Population", "evolve", "simulate",
     "run"}
\* The global names simulate reads.
SimulateGlobalsRead ==
    {"initialState", "tMax", "modelParams", "evolve", "collectTotals"}

\* The attributes of a list that the driver asks for: a list has append and
\* no length or push.
ListHasAttr(attr) == attr \in {"append", "sort", "pop", "index", "count"}

\* Line 172: dynamics = [initialState].  The name is a global, not the
\* argument initial_state.
SimulateInit ==
    /\ dyn_pc = "init"
    /\ IF "initialState" \in dyn_in.globals
       THEN /\ dynamics' = <<dyn_in.initialState>>
            /\ dyn_pc' = "while"
            /\ UNCHANGED dyn_err
       ELSE /\ dyn_pc' = "raised"
            /\ dyn_err' = [err |-> "NameError", at |-> "initialState"]
            /\ UNCHANGED dynamics
    /\ UNCHANGED dyn_in

\* Line 173: while (dynamics[dynamics.length - 1].time < tMax).  The
\* subscript is evaluated first, and in it dynamics.length.
SimulateWhile ==
    /\ dyn_pc = "while"
    /\ ~ListHasAttr("length")
    /\ dyn_pc' = "raised"
    /\ dyn_err' = [err |-> "AttributeError", at |-> "list.length"]
    /\ UNCHANGED <<dyn_in, dynamics>>

\* ---- the calls the model makes ----
StartTimes == {0, 1, 2}
EndTimes == {1, 3}
SampleFunctions == {"identity", "poisson"}

\* initialState and tMax are the values a caller has bound the globals to,
\* read only when the name is bound.
InitialStates ==
    {[k \in PopulationKeys |->
        IF k = "time" THEN tm ELSE [a \in Ages |-> 1]] : tm \in StartTimes}

SimulateInputs ==
    {[initial_state |-> s, func |-> f,
      globals |-> RunModuleGlobals \cup bound,
      initialState |-> g, tMax |-> tmax] :
        s \in InitialStates, f \in SampleFunctions,
        bound \in SUBSET (SimulateGlobalsRead \ RunModuleGlobals),
        g \in InitialStates, tmax \in EndTimes}

SimulatePending ==
    /\ dyn_in \in SimulateInputs
    /\ dyn_pc = "init"
    /\ dynamics = <<>>
    /\ dyn_err = None

SimulateIdle ==
    /\ dyn_in = <<>>
    /\ dyn_pc = "idle"
    /\ dynamics = <<>>
    /\ dyn_err = None

-----------------------------------------------------------------------------
(***************************************************************************)
(* OldSEIRPlusPlusSimulation.__call__: the readouts of a run and the series *)
(* derived from them.  Position k + 1 of a sequence is index k of the       *)
(* code's time axis; an entry is the vector over the age groups.            *)
(***************************************************************************)

\* Longest run, in days from the start to the end of tspan.
MaxSpan == 8

\* The factors of lines 565 and 569, and the lag of line 567 in days.
VentilatorFactor == Frac(73, 100)
HospitalizedFactor == Frac(27241, 10000)
HospitalizedLagDays == 5

\* np.arange(start_time, end_time + dt, dt)
Arange(start_time, end_time, dt) ==
    [k \in 1..GridLength(start_time, end_time, dt) |->
        FAdd(start_time, FMul(Frac(k - 1, 1), dt))]

\* np.searchsorted(a, v, side='right'): the number of entries not above v.
SearchSortedRight(a, v) == Cardinality({k \in 1..Len(a) : FLe(a[k], v)})

\* np.searchsorted(a, v): the number of entries of the sorted a below v,
\* which is the index of the first entry not below v, or len(a).
SearchSorted(a, v) == Cardinality({k \in 1..Len(a) : FLt(a[k], v)})

\* The positions x[:-i] and x[-i:] select from an array of n entries.
SliceBeforeLast(n, i) ==
    IF i = 0 THEN {} ELSE {p \in 1..n : p <= n - i}
SliceLast(n, i) ==
    IF i = 0 THEN 1..n ELSE {p \in 1..n : p > n - i}
\* x[i:]
SliceFrom(x, i) == [p \in 1..(IF i < Len(x) THEN Len(x) - i ELSE 0) |-> x[p + i]]

\* Lines 546-563: the run, the convolutions and the cumulative sums.  What
\* they leave in sol is taken from the call: the grid of the run and a
\* cumulative series for each readout.
OldReadouts ==
    /\ old_pc = "readouts"
    /\ LET t == Arange(old_in.tspan[1], old_in.tspan[2], old_in.dt)
       IN  old_sol' = [t |-> t,
                       y |-> [key \in {"icu", "dead", "recovered"} |->
                                [k \in 1..Len(t) |->
                                    Broadcast(Frac(old_in.rate[key] * (k - 1),
                                                   1))]]]
    /\ old_pc' = "derive"
    /\ UNCHANGED old_in

\* Lines 564-572: critical, ventilators and the lagged hospitalized series.
OldDerive ==
    /\ old_pc = "derive"
    /\ LET n == Len(old_sol.t)
           critical == [k \in 1..n |->
               [a \in Ages |->
                   FSub(FSub(old_sol.y["icu"][k][a], old_sol.y["dead"][k][a]),
                        old_sol.y["recovered"][k][a])]]
           ventilators == [k \in 1..n |-> VScale(critical[k], VentilatorFactor)]
           i == SearchSorted(old_sol.t,
                             FAdd(old_sol.t[1], Frac(HospitalizedLagDays, 1)))
           zeros == [k \in 1..n |-> Broadcast(Zero)]
           lagged == SliceFrom(critical, i)
           assigned == [k \in 1..n |->
               IF k \in SliceBeforeLast(n, i)
               THEN VScale(lagged[k], HospitalizedFactor)
               ELSE zeros[k]]
           hospitalized == [k \in 1..n |->
               IF k \in SliceLast(n, i) THEN Broadcast(NaN) ELSE assigned[k]]
       IN  old_sol' = [old_sol EXCEPT !.y =
               old_sol.y @@ [key \in {"critical", "ventilators", "hospitalized"} |->
                   IF key = "critical" THEN critical
                   ELSE IF key = "ventilators" THEN ventilators
                   ELSE hospitalized]]
    /\ old_pc' = "returned"
    /\ UNCHANGED old_in

\* ---- the calls the model makes ----
OldDtVals == {Frac(1, 2), One, Frac(5, 2)}
IcuRates == {2, 3}
DeadRates == {0, 1}

OldInputs ==
    {[tspan |-> <<Frac(t0, 1), Frac(t0 + span, 1)>>, dt |-> dt,
      rate |-> [key \in {"icu", "dead", "recovered"} |->
                   IF key = "icu" THEN icu
                   ELSE IF key = "dead" THEN dead ELSE 1 - dead]] :
        t0 \in {0, 10}, span \in 1..MaxSpan, dt \in OldDtVals,
        icu \in IcuRates, dead \in DeadRates}

OldPending ==
    /\ old_in \in OldInputs
    /\ old_pc = "readouts"
    /\ old_sol = <<>>

OldIdle ==
    /\ old_in = <<>>
    /\ old_pc = "idle"
    /\ old_sol = <<>>

-----------------------------------------------------------------------------
vars == <<attrVars, estVars, simVars, gmdVars, runVars, hdfVars, emVars, evVars,
         dynVars, oldVars>>

\* ---- specification of the restricted-key records ----
InitAttr == AttrPending /\ EstIdle /\ SimIdle /\ GmdIdle /\ RunIdle /\ HDFIdle /\ EmceeIdle /\ EvolveIdle /\ SimulateIdle /\ OldIdle

NextAttr == AttrDictInit /\ UNCHANGED <<estVars, simVars, gmdVars, runVars, hdfVars, emVars, evVars, dynVars, oldVars>>

SpecAttr == InitAttr /\ [][NextAttr]_vars

\* ---- specification of the likelihood estimator ----
InitEst ==
    /\ AttrIdle
    /\ SimIdle
    /\ GmdIdle /\ RunIdle /\ HDFIdle /\ EmceeIdle /\ EvolveIdle /\ SimulateIdle /\ OldIdle
    /\ fit_parameters \in ParameterLists
    /\ theta = <<>>
    /\ est_op = "none"
    /\ est_ret = NoRet
    /\ uni_in = <<>>
    /\ call_log = <<>>
    /\ ll_calls = <<>>

NextEst ==
    \/ \E th \in Vectors(ThetaVals) :
        CheckWithinBoundsCall(th) /\ UNCHANGED <<attrVars, simVars, gmdVars, runVars, hdfVars, emVars, evVars, dynVars, oldVars>>
    \/ \E th \in Vectors(ThetaVals), ll \in LLVals :
        EstimatorCall(th, ll) /\ UNCHANGED <<attrVars, simVars, gmdVars, runVars, hdfVars, emVars, evVars, dynVars, oldVars>>

SpecEst == InitEst /\ [][NextEst]_vars

\* ---- specification of the grid sampler ----
InitUni == AttrIdle /\ UniformPending /\ SimIdle /\ GmdIdle /\ RunIdle /\ HDFIdle /\ EmceeIdle /\ EvolveIdle /\ SimulateIdle /\ OldIdle

NextUni == SampleUniform /\ UNCHANGED <<attrVars, simVars, gmdVars, runVars, hdfVars, emVars, evVars, dynVars, oldVars>>

SpecUni == InitUni /\ [][NextUni]_vars

\* ---- specification of the ensemble sampler loop ----
otherThanEmcee ==
    <<attrVars, estVars, simVars, gmdVars, runVars, hdfVars, evVars, dynVars, oldVars>>

InitEmcee ==
    AttrIdle /\ EstIdle /\ SimIdle /\ GmdIdle /\ RunIdle /\ HDFIdle /\ EmceePending
        /\ EvolveIdle /\ SimulateIdle /\ OldIdle

NextEmcee ==
    \/ EmceeSetup /\ UNCHANGED otherThanEmcee
    \/ EmceeIterate /\ UNCHANGED otherThanEmcee
    \/ EmceeReturn /\ UNCHANGED otherThanEmcee

SpecEmcee == InitEmcee /\ [][NextEmcee]_vars

\* ---- specification of the discrete driver's step ----
otherThanEvolve ==
    <<attrVars, estVars, simVars, gmdVars, runVars, hdfVars, emVars, dynVars,
      oldVars>>

InitEvolve ==
    AttrIdle /\ EstIdle /\ SimIdle /\ GmdIdle /\ RunIdle /\ HDFIdle
        /\ EmceeIdle /\ EvolvePending /\ SimulateIdle /\ OldIdle

NextEvolve ==
    \/ EvolveFracInfected /\ UNCHANGED otherThanEvolve
    \/ EvolveNewTime /\ UNCHANGED otherThanEvolve
    \/ EvolveAgeGroups /\ UNCHANGED otherThanEvolve

SpecEvolve == InitEvolve /\ [][NextEvolve]_vars

\* ---- specification of the SEIR++ constructor ----
InitSim == AttrIdle /\ EstIdle /\ SimPending /\ GmdIdle /\ RunIdle /\ HDFIdle /\ EmceeIdle /\ EvolveIdle /\ SimulateIdle /\ OldIdle

NextSim == Construct /\ UNCHANGED <<attrVars, estVars, gmdVars, runVars, hdfVars, emVars, evVars, dynVars, oldVars>>

SpecSim == InitSim /\ [][NextSim]_vars

\* ---- specification of the calibration entry point ----
InitGmd == AttrIdle /\ EstIdle /\ SimIdle /\ GmdPending /\ RunIdle /\ HDFIdle /\ EmceeIdle /\ EvolveIdle /\ SimulateIdle /\ OldIdle

NextGmd ==
    \/ GmdTimeFloor /\ UNCHANGED <<attrVars, estVars, simVars, runVars, hdfVars, emVars, evVars, dynVars, oldVars>>
    \/ GmdIfr /\ UNCHANGED <<attrVars, estVars, simVars, runVars, hdfVars, emVars, evVars, dynVars, oldVars>>
    \/ GmdMitigation /\ UNCHANGED <<attrVars, estVars, simVars, runVars, hdfVars, emVars, evVars, dynVars, oldVars>>
    \/ GmdSpacing /\ UNCHANGED <<attrVars, estVars, simVars, runVars, hdfVars, emVars, evVars, dynVars, oldVars>>
    \/ GmdDelays /\ UNCHANGED <<attrVars, estVars, simVars, runVars, hdfVars, emVars, evVars, dynVars, oldVars>>
    \/ GmdPrefactors /\ UNCHANGED <<attrVars, estVars, simVars, runVars, hdfVars, emVars, evVars, dynVars, oldVars>>
    \/ GmdConstruct /\ UNCHANGED <<attrVars, estVars, simVars, runVars, hdfVars, emVars, evVars, dynVars, oldVars>>
    \/ GmdGetY0 /\ UNCHANGED <<attrVars, estVars, simVars, runVars, hdfVars, emVars, evVars, dynVars, oldVars>>
    \/ GmdRun /\ UNCHANGED <<attrVars, estVars, simVars, runVars, hdfVars, emVars, evVars, dynVars, oldVars>>
    \/ GmdInterpolate /\ UNCHANGED <<attrVars, estVars, simVars, runVars, hdfVars, emVars, evVars, dynVars, oldVars>>

SpecGmd == InitGmd /\ [][NextGmd]_vars

\* ---- specification of a base simulation run ----
InitRun == AttrIdle /\ EstIdle /\ SimIdle /\ GmdIdle /\ RunPending /\ HDFIdle /\ EmceeIdle /\ EvolveIdle /\ SimulateIdle /\ OldIdle

NextRun ==
    \/ RunSetup /\ UNCHANGED <<attrVars, estVars, simVars, gmdVars, hdfVars, emVars, evVars, dynVars, oldVars>>
    \/ \E m \in MitigationVals, c \in CosVals :
            RunStep(m, c) /\ UNCHANGED <<attrVars, estVars, simVars, gmdVars, hdfVars, emVars, evVars, dynVars, oldVars>>
    \/ RunReturn /\ UNCHANGED <<attrVars, estVars, simVars, gmdVars, hdfVars, emVars, evVars, dynVars, oldVars>>

SpecRun == InitRun /\ [][NextRun]_vars

\* ---- specification of the HDF backend ----
otherThanHdf == <<attrVars, estVars, simVars, gmdVars, runVars, emVars, evVars, dynVars, oldVars>>

InitHdf ==
    AttrIdle /\ EstIdle /\ SimIdle /\ GmdIdle /\ RunIdle /\ HDFPending /\ EmceeIdle /\ EvolveIdle /\ SimulateIdle /\ OldIdle

NextHdf ==
    \/ HDFCreate /\ UNCHANGED otherThanHdf
    \/ HDFReopen /\ UNCHANGED otherThanHdf
    \/ ReadFixedValues /\ UNCHANGED otherThanHdf
    \/ ReadFitParameters /\ UNCHANGED otherThanHdf
    \/ ReadData /\ UNCHANGED otherThanHdf
    \/ ReadSimulator /\ UNCHANGED otherThanHdf

SpecHdf == InitHdf /\ [][NextHdf]_vars

\* ---- specification of the discrete driver ----
otherThanSimulate ==
    <<attrVars, estVars, simVars, gmdVars, runVars, hdfVars, emVars, evVars,
      oldVars>>

InitSimulate ==
    AttrIdle /\ EstIdle /\ SimIdle /\ GmdIdle /\ RunIdle /\ HDFIdle
        /\ EmceeIdle /\ EvolveIdle /\ SimulatePending /\ OldIdle

NextSimulate ==
    \/ SimulateInit /\ UNCHANGED otherThanSimulate
    \/ SimulateWhile /\ UNCHANGED otherThanSimulate

SpecSimulate == InitSimulate /\ [][NextSimulate]_vars

\* ---- specification of the old SEIR++ readouts ----
otherThanOld ==
    <<attrVars, estVars, simVars, gmdVars, runVars, hdfVars, emVars, evVars,
      dynVars>>

InitOld ==
    AttrIdle /\ EstIdle /\ SimIdle /\ GmdIdle /\ RunIdle /\ HDFIdle
        /\ EmceeIdle /\ EvolveIdle /\ SimulateIdle /\ OldPending

NextOld ==
    \/ OldReadouts /\ UNCHANGED otherThanOld
    \/ OldDerive /\ UNCHANGED otherThanOld

SpecOld == InitOld /\ [][NextOld]_vars

-----------------------------------------------------------------------------
(***************************************************************************)
(* Claims.                                                                 *)
(***************************************************************************)

\* C1 (as stated): construction of a restricted-key record succeeds exactly
\* when every supplied keyword name is in the declared expected_kwargs set.
C1_SucceedsIffSuppliedSubsetOfDeclared ==
    ad_outcome \in {"ok", "ValueError"} =>
        (ad_outcome = "ok" <=> ad_kwargs \subseteq expected_kwargs(ad_cls))

\* C1 (amended): construction succeeds exactly when every declared name is
\* among the supplied keyword names; a missing declared name fails with
\* ValueError, names outside the declared set are accepted, and on success
\* every supplied key is a key (and an attribute) of the instance.
C1_SucceedsIffDeclaredSubsetOfSupplied ==
    ad_outcome # "none" =>
        /\ ad_outcome \in {"ok", "ValueError"}
        /\ ad_outcome = "ok" <=> expected_kwargs(ad_cls) \subseteq ad_kwargs
        /\ ad_outcome # "ok" => ad_outcome = "ValueError" /\ ad_self = {}
        /\ ad_outcome = "ok" => ad_self = ad_args \cup ad_kwargs

\* An AgeDistribution built with both declared names and one undeclared
\* name exists; building it with only one declared name failed elsewhere.
C1_Witness ==
    /\ ad_cls = "AgeDistribution"
    /\ ad_kwargs = {"bin_edges", "counts", "extra"}
    /\ ad_outcome = "ok"
    /\ "extra" \in ad_self

\* C2: check_within_bounds(theta), theta holding one value per fit
\* parameter, is True iff every component lies in its parameter's inclusive
\* [lower, upper] bounds.
C2_WithinBoundsIffEveryComponentInside ==
    (est_op = "check_within_bounds" /\ Len(theta) = Len(fit_parameters)) =>
        (est_ret = TRUE <=>
            \A i \in 1..Len(theta) :
                /\ fit_parameters[i].bounds[1] <= theta[i]
                /\ theta[i] <= fit_parameters[i].bounds[2])

\* A two-parameter check that passed with the second value on its upper
\* bound and the first on its lower bound.
C2_Witness ==
    /\ est_op = "check_within_bounds"
    /\ Len(fit_parameters) = 2 /\ Len(theta) = 2
    /\ fit_parameters[1].bounds = <<0, 1>> /\ theta[1] = 0
    /\ fit_parameters[2].bounds = <<0, 1>> /\ theta[2] = 1
    /\ est_ret = TRUE

\* C3: __call__(theta) returns negative infinity without invoking
\* get_log_likelihood when theta fails the bounds check, and otherwise
\* invokes it exactly once with {fit_names[i]: theta[i]} and returns its
\* result; it never reports an error.
C3_CallGuardsLikelihood ==
    (est_op = "__call__" /\ Len(theta) = Len(fit_parameters)) =>
        IF \E i \in 1..Len(theta) :
               \/ theta[i] < fit_parameters[i].bounds[1]
               \/ theta[i] > fit_parameters[i].bounds[2]
        THEN est_ret = NegInf /\ ll_calls = <<>>
        ELSE /\ Len(ll_calls) = 1
             /\ DOMAIN ll_calls[1] = {fit_parameters[i].name : i \in 1..Len(theta)}
             /\ \A i \in 1..Len(theta) :
                    ll_calls[1][fit_parameters[i].name] = theta[i]
             /\ est_ret \in LLVals

\* Both outcomes of a two-parameter call happen: this is the delegating one,
\* with two different values so that the mapping's order shows.
C3_Witness ==
    /\ est_op = "__call__"
    /\ Len(fit_parameters) = 2
    /\ theta = <<0, 1>>
    /\ Len(ll_calls) = 1
    /\ ll_calls[1]["r0"] = 0 /\ ll_calls[1]["beta"] = 1
    /\ est_ret = -2

\* The call as made: its evaluation times and the facts of its keyword bag
\* that the checks of get_model_data read.
CallFloorViolated ==
    \E i \in 1..Len(gmd_call.t) :
        FLt(gmd_call.t[i], FAdd(gmd_call.kwargs["start_day"], One))
CallBothIfr ==
    "ifr" \in DOMAIN gmd_call.kwargs /\ "log_ifr" \in DOMAIN gmd_call.kwargs
CallTimes == MitigationTimes(gmd_call.kwargs)
CallSpacing ==
    IF "min_mitigation_spacing" \in DOMAIN gmd_call.kwargs
    THEN gmd_call.kwargs["min_mitigation_spacing"]
    ELSE Frac(5, 1)
CallUnderSpaced ==
    \E i \in 1..(Len(CallTimes) - 1) :
        FLt(FSub(CallTimes[i + 1], CallTimes[i]), CallSpacing)
CallOrdered ==
    \A i \in 1..(Len(CallTimes) - 1) : FLt(CallTimes[i], CallTimes[i + 1])

C4_WitnessAccepted ==
    /\ gmd_pc = "returned"
    /\ gmd_call.t = <<Frac(11, 1)>>

C5_WitnessExactGap ==
    /\ gmd_pc = "returned"
    /\ CallTimes = <<Frac(10, 1), Frac(15, 1)>>
    /\ "min_mitigation_spacing" \notin DOMAIN gmd_call.kwargs

\* The keyword arguments the constructor was called with, once it was.
ConstructorCalled == Len(gmd_trace) >= 1
ConstructorKwargs == gmd_trace[1].kwargs

C6_WitnessBoth ==
    /\ CallBothIfr
    /\ gmd_err = Raise(InvalidParametersError, "both_ifr")

\* C9: with r0 = 0 every stepper call writes zero new infections and leaves
\* each age group's susceptible value at that of the previous index, so the
\* susceptible pool keeps its initial value for the whole run.
C9_NoInfectionsWhenR0Zero ==
    (run_pc \in {"step", "returned"} /\ run_in.r0 = Zero) =>
        \A a \in Ages : \A count \in 1..(run_count - 1) :
            /\ run_y.infected[a][count + 1] = Zero
            /\ run_y.susceptible[a][count + 1] = run_y.susceptible[a][count]
            /\ run_y.susceptible[a][count + 1] = run_in.y0.susceptible[a]

\* A finished run of two steps with r0 = 0, a kernel that is not zero and
\* infected people to begin with.
C9_Witness ==
    /\ run_pc = "returned"
    /\ run_in.r0 = Zero
    /\ run_count = 3
    /\ run_in.serial_pdf[1] = One
    /\ \A a \in Ages : run_y.susceptible[a][3] = run_in.y0.susceptible[a]
    /\ \A a \in Ages : run_in.y0.infected[a] # Zero

\* The p_symptomatic in force after construction-time rescaling, and the
\* age-weighted sum of the product of the cascading probabilities through
\* stage i (i = 0: the age distribution alone).
RescaledPSymptomatic ==
    IF "ifr" \in DOMAIN sim_kwargs
    THEN Rescale(sim_kwargs["age_distribution"], sim_kwargs["p_symptomatic"],
                 sim_kwargs["p_hospitalized"], sim_kwargs["p_critical"],
                 sim_kwargs["p_dead"], sim_kwargs["all_dead_multiplier"],
                 sim_kwargs["ifr"])
    ELSE sim_kwargs["p_symptomatic"]

StageProb(i, a) ==
    CASE i = 1 -> RescaledPSymptomatic[a]
      [] i = 2 -> sim_kwargs["p_hospitalized"][a]
      [] i = 3 -> sim_kwargs["p_critical"][a]
      [] i = 4 -> sim_kwargs["p_dead"][a]

RECURSIVE CumulativeProb(_, _)
CumulativeProb(i, a) ==
    IF i = 0 THEN One ELSE FMul(CumulativeProb(i - 1, a), StageProb(i, a))

WeightedThrough(i) ==
    VSum([a \in Ages |->
            FMul(sim_kwargs["age_distribution"][a], CumulativeProb(i, a))])

Exceeds(i) == FLt(WeightedThrough(i - 1), WeightedThrough(i))

C7_WitnessLaterStage ==
    /\ sim.outcome = InvalidParametersError
    /\ sim.name = "p_dead"

\* The age-weighted sum of p_symptomatic * p_hospitalized * p_critical *
\* p_dead * all_dead_multiplier with the p_symptomatic of the readouts.
NetDeathSum ==
    VSum([a \in Ages |->
        FMul(sim_kwargs["age_distribution"][a],
             FMul(FMul(FMul(FMul(sim.readouts.symptomatic[a],
                                 sim_kwargs["p_hospitalized"][a]),
                            sim_kwargs["p_critical"][a]),
                       sim_kwargs["p_dead"][a]),
                  sim_kwargs["all_dead_multiplier"]))])

\* p_symptomatic of the readouts is the passed array times one factor.
CommonFactor ==
    \A a, b \in Ages :
        FMul(sim.readouts.symptomatic[a], sim_kwargs["p_symptomatic"][b])
        = FMul(sim.readouts.symptomatic[b], sim_kwargs["p_symptomatic"][a])

PassedNetDeathSum ==
    VSum([a \in Ages |->
        FMul(sim_kwargs["age_distribution"][a],
             FMul(FMul(FMul(FMul(sim_kwargs["p_symptomatic"][a],
                                 sim_kwargs["p_hospitalized"][a]),
                            sim_kwargs["p_critical"][a]),
                       sim_kwargs["p_dead"][a]),
                  sim_kwargs["all_dead_multiplier"]))])

\* C8, away from the division by zero: when the net death probability of
\* the passed arguments is not zero, a successful construction with ifr has
\* scaled p_symptomatic by one factor to the requested ifr.
C8_RescaledToIfrWhenSumNonzero ==
    (sim.outcome = "ok" /\ "ifr" \in DOMAIN sim_kwargs
        /\ PassedNetDeathSum # Zero) =>
        /\ NetDeathSum = sim_kwargs["ifr"]
        /\ CommonFactor
        /\ sim.readouts.positive = sim.readouts.symptomatic
        /\ \A a \in Ages : IsFinite(sim.readouts.symptomatic[a])

\* The rescaling at work on a healthy input: one age-uniform construction
\* whose p_symptomatic was changed to reach the ifr.
C8_WitnessRescaled ==
    /\ sim.outcome = "ok"
    /\ "ifr" \in DOMAIN sim_kwargs
    /\ PassedNetDeathSum # Zero
    /\ sim.readouts.symptomatic # sim_kwargs["p_symptomatic"]

\* C10 (as stated): a backend created with fixed_values and a list of
\* SampleParameter objects is created without an error, and its properties
\* fixed_values and fit_parameters then read back, without an error, the
\* same mapping and the same parameters in the same order, an absent guess
\* or uncertainty reading back as absent.
C10_RoundTrip ==
    ({"fixed_values", "fit_parameters"} \subseteq DOMAIN hdf_in
        /\ hdf_pc \notin {"idle", "new"}) =>
        /\ hdf_err = None
        /\ hdf_read.prop = "fixed_values" =>
              /\ hdf_read.outcome = "ok"
              /\ hdf_read.value = hdf_in["fixed_values"]
        /\ hdf_read.prop = "fit_parameters" =>
              /\ hdf_read.outcome = "ok"
              /\ hdf_read.value = hdf_in["fit_parameters"]

\* The name the constructor stored, once a backend is there to read it.
StoredSimulator == hdf_file["attrs"]["simulator"]

\* C11 (as stated): the property simulator never raises; it returns None when
\* no simulator was stored, the class when the stored name is one of the
\* classes pydemic.models re-exports, and the stored string otherwise.
C11_SimulatorThreeOutcomes ==
    hdf_read.prop = "simulator" =>
        /\ hdf_read.outcome = "ok"
        /\ hdf_read.value =
              IF "simulator" \notin DOMAIN hdf_file["attrs"]
              THEN [kind |-> "None", name |-> None]
              ELSE IF StoredSimulator \in RegistryClasses
              THEN [kind |-> "class", name |-> StoredSimulator]
              ELSE [kind |-> "str", name |-> StoredSimulator]

\* C12: when a call of the constructor or of an accessor has ended, by a
\* return or by an exception, no file handle is open.
C12_NoHandleLeftOpen == hdf_open = 0

\* An accessor raised on a file the failed constructor left half written.
C12_Witness ==
    /\ hdf_err = "AttributeError"
    /\ hdf_read.prop = "fit_parameters"
    /\ hdf_read.outcome = "KeyError"
    /\ hdf_open = 0

\* What sample_uniform is expected to return for the call that was made.
UniformGridSizes ==
    [i \in 1..Len(fit_parameters) |->
        IF uni_in.num_points.isdict
        THEN uni_in.num_points.value[fit_parameters[i].name]
        ELSE uni_in.num_points.value]
RECURSIVE ProductOfSizes(_)
ProductOfSizes(sizes) ==
    IF sizes = <<>> THEN 1 ELSE Head(sizes) * ProductOfSizes(Tail(sizes))
UniformGridPoints(i) ==
    LET lo == fit_parameters[i].bounds[1]
        hi == fit_parameters[i].bounds[2]
        n == UniformGridSizes[i]
    IN  IF n = 1 THEN {lo}
        ELSE {lo + (k * (hi - lo)) \div (n - 1) : k \in 0..(n - 1)}
UniformRowInBounds(row) ==
    \A i \in 1..Len(row) :
        fit_parameters[i].bounds[1] <= row[i]
            /\ row[i] <= fit_parameters[i].bounds[2]

\* C13: sample_uniform returns every element of the Cartesian product of the
\* grids once (as many rows as the product of the point counts, shared or
\* per parameter), calls the estimator once on each row, and the i-th
\* likelihood is the value for the i-th row, with a pool as without one.
C13_UniformGrid ==
    est_op = "sample_uniform" =>
        LET values == est_ret.values
            n == Len(fit_parameters)
        IN  /\ Len(values) = ProductOfSizes(UniformGridSizes)
            /\ \A row \in [1..n -> UNION {UniformGridPoints(i) : i \in 1..n}] :
                  (\A i \in 1..n : row[i] \in UniformGridPoints(i)) =>
                      \E k \in 1..Len(values) : values[k] = row
            /\ \A j, k \in 1..Len(values) : values[j] = values[k] => j = k
                  \/ \E i \in 1..n :
                        fit_parameters[i].bounds[1] = fit_parameters[i].bounds[2]
                            /\ UniformGridSizes[i] > 1
            /\ call_log = values
            /\ Len(est_ret.likelihoods) = Len(values)
            /\ \A k \in 1..Len(values) :
                  est_ret.likelihoods[k] =
                     IF UniformRowInBounds(values[k])
                     THEN Frac(IF uni_in.likelihood = "neg_sum"
                               THEN 0 - DictSum([i \in 1..n |-> values[k][i]])
                               ELSE 0, 1)
                     ELSE <<-1, 0>>

\* A three by two grid sampled through a pool: six rows, six likelihoods.
C13_Witness ==
    /\ est_op = "sample_uniform"
    /\ uni_in.pool = "Pool"
    /\ uni_in.likelihood = "neg_sum"
    /\ uni_in.num_points.isdict
    /\ Len(est_ret.values) = 6
    /\ \E j, k \in 1..6 : est_ret.likelihoods[j] # est_ret.likelihoods[k]

\* The positive multiples of checkpoint_steps up to the current iteration.
CheckpointsSoFar ==
    [k \in 1..(em_iter \div em_in.checkpoint_steps) |->
        k * em_in.checkpoint_steps]

\* C14: an estimate is taken exactly at the iterations that are positive
\* multiples of checkpoint_steps; the k-th one is in row k-1 of the history;
\* no write falls outside the history; and the method returns only after
\* `steps` iterations, with floor(steps / checkpoint_steps) rows recorded.
C14_CheckpointsAtMultiples ==
    (em_pc \in {"loop", "returned", "raised"} /\ em_in.checkpoint_steps > 0) =>
        /\ em_err = None
        /\ em_log = CheckpointsSoFar
        /\ em_index = Len(em_log)
        /\ em_index <= Len(em_hist)
        /\ \A r \in 1..Len(em_hist) :
              em_hist[r] = IF r <= em_index
                           THEN MeanAutocorrTime(CheckpointsSoFar[r]) ELSE 0
        /\ em_pc = "returned" =>
              /\ em_iter = em_in.steps
              /\ em_index = em_in.steps \div em_in.checkpoint_steps

\* Eight iterations with a checkpoint every third: two rows recorded.
C14_Witness ==
    /\ em_pc = "returned"
    /\ em_in.steps = 8
    /\ em_in.checkpoint_steps = 3
    /\ em_log = <<3, 6>>
    /\ em_hist = <<3, 6, 0>>

\* A call of evolve has ended once it has returned or raised.
EvolveEnded == ev_pc \in {"returned", "raised"}
\* The beds free before the newly critical patients are placed.
FreeBedsAtStart ==
    ev_in.pars["ICU_beds"]
        - (SumValues(ev_in.population["critical"], NAges)
           - SumValues(ev_local["new_stabilized"], NAges)
           - SumValues(ev_local["new_ICU_dead"], NAges))
\* The beds still free when the allocation reaches age group a.
RECURSIVE FreeBedsBefore(_)
FreeBedsBefore(a) ==
    IF a = 1 THEN FreeBedsAtStart
    ELSE LET f == FreeBedsBefore(a - 1)
             c == ev_local["new_critical"][a - 1]
         IN  IF f > c THEN f - c ELSE IF f > 0 THEN 0 ELSE f

\* C15 (as stated): a step of evolve returns, and in it each age group, in
\* ascending order, is given min(its newly critical, beds still free) beds,
\* the rest of the group becoming overflow, the beds given never exceeding
\* the beds that were free.
C15_BedsYoungestFirst ==
    /\ EvolveEnded => ev_pc = "returned"
    /\ ev_pc = "returned" =>
          /\ \A a \in Ages :
                ev_local["bedded"][a] =
                    IF FreeBedsBefore(a) <= 0 THEN 0
                    ELSE Min(ev_local["new_critical"][a], FreeBedsBefore(a))
          /\ \A a \in Ages :
                ev_local["new_overflow"][a] =
                    ev_local["new_critical"][a] - ev_local["bedded"][a]
          /\ FreeBedsAtStart > 0 =>
                SumValues(ev_local["bedded"], NAges) <= FreeBedsAtStart

\* C16 (as stated): when evolve returns, no bed is free or no age group has
\* overflow left, overflow having been moved youngest first and no overflow
\* count being negative.
C16_OverflowMovedBack ==
    /\ EvolveEnded => ev_pc = "returned"
    /\ ev_pc = "returned" =>
          /\ ev_local["free_ICU_beds"] <= 0
                \/ \A a \in Ages : ev_ret["overflow"][a] = 0
          /\ \A a \in Ages : ev_ret["overflow"][a] >= 0
          /\ \A a, b \in Ages :
                (a < b /\ ev_ret["overflow"][a] > 0) =>
                    ev_local["moved_back"][b] = 0

\* The compartments the conservation sum runs over.
ConservedCompartments ==
    <<"susceptible", "exposed", "infectious", "recovered", "hospitalized",
      "critical", "overflow", "dead">>
RECURSIVE CompartmentTotal(_, _)
CompartmentTotal(pop, i) ==
    IF i = 0 THEN 0
    ELSE SumValues(pop[ConservedCompartments[i]], NAges)
            + CompartmentTotal(pop, i - 1)

\* C17 (as stated): every step of evolve returns a population whose
\* compartments, summed over the age groups, add up to the served population.
C17_PopulationConserved ==
    /\ EvolveEnded => ev_pc = "returned"
    /\ ev_pc = "returned" =>
          CompartmentTotal(ev_ret, Len(ConservedCompartments))
              = ev_in.pars["population_served"]

\* C18 (as stated): every step of evolve returns a population whose
\* recovered, discharged and dead counts are those of the previous state
\* plus the step's new ones, hence never smaller.
C18_CumulativeCounts ==
    /\ EvolveEnded => ev_pc = "returned"
    /\ ev_pc = "returned" =>
          \A a \in Ages :
              /\ ev_ret["recovered"][a] =
                    ev_in.population["recovered"][a]
                        + ev_local["new_recovered"][a]
                        + ev_local["new_discharged"][a]
              /\ ev_ret["discharged"][a] =
                    ev_in.population["discharged"][a]
                        + ev_local["new_discharged"][a]
              /\ ev_ret["dead"][a] =
                    ev_in.population["dead"][a]
                        + ev_local["new_ICU_dead"][a]
                        + ev_local["new_overflow_dead"][a]

\* C19: a call of get_model_data that raises InvalidParametersError has
\* ended there, before get_y0 was called and before any step was run, and
\* without a result.
C19_ValidationBeforeSimulation ==
    gmd_err.type = InvalidParametersError =>
        /\ gmd_pc = "raised"
        /\ \A i \in 1..Len(gmd_trace) :
              gmd_trace[i].call \notin {"get_y0", "__call__"}
        /\ "y0" \notin DOMAIN gmd_local
        /\ "result" \notin DOMAIN gmd_local

\* The constructor, reached after every check of get_model_data has passed,
\* rejects a cascading probability.
C19_Witness ==
    /\ gmd_pc = "raised"
    /\ gmd_err.type = InvalidParametersError
    /\ gmd_err.msg \in {StageNames[i] : i \in 1..Len(StageNames)}
    /\ Len(gmd_trace) = 1
    /\ gmd_trace[1].call = "__init__"

\* A delay stage given a mean alone is rejected before the constructor.
C19_WitnessDelay ==
    /\ gmd_pc = "raised"
    /\ gmd_err = Raise(InvalidParametersError, "delay")
    /\ gmd_trace = <<>>

\* The arrays with every value at a time index from count on replaced by nan.
Poisoned(y, count) ==
    [key \in DOMAIN y |-> [a \in Ages |->
        [i \in 1..Len(y[key][a]) |->
            IF i >= count + 1 THEN NaN ELSE y[key][a][i]]]]
SteppedCompartments == {"infected", "susceptible"}

\* C20: the stepper is called once for each count = 1, ..., n_steps - 1 in
\* increasing order; the call at count changes nothing but susceptible[count]
\* and infected[count] of each age group, and what it writes there is
\* determined by the values at the indices below count.
C20_StepFrame ==
    /\ [](run_pc \in {"step", "returned"} =>
            /\ run_calls = [k \in 1..(run_count - 1) |-> k]
            /\ run_pc = "returned" => run_count = run_in.n_steps)
    /\ [][(run_pc = "step" /\ run_pc' = "step") =>
            /\ run_count' = run_count + 1
            /\ run_count < run_in.n_steps
            /\ DOMAIN run_y' = DOMAIN run_y
            /\ \A key \in DOMAIN run_y : \A a \in Ages :
                  \A i \in 1..run_in.n_steps :
                     (key \notin SteppedCompartments \/ i # run_count + 1) =>
                         run_y'[key][a][i] = run_y[key][a][i]
            /\ \E m \in MitigationVals, c \in CosVals :
                  \A key \in SteppedCompartments : \A a \in Ages :
                     run_y'[key][a][run_count + 1] =
                        step(Poisoned(run_y, run_count), run_count, run_in.dt,
                             run_in.r0, m,
                             seasonal_forcing(run_in.seasonal_forcing_amp, c),
                             run_in.serial_pdf, run_in.total_population
                            )[key][a][run_count + 1]
       ]_vars

\* A finished run of two steps over three compartments in which the second
\* step found new infections.
C20_Witness ==
    /\ run_pc = "returned"
    /\ run_calls = <<1, 2>>
    /\ "recovered" \in DOMAIN run_y
    /\ \E a \in Ages : run_y["infected"][a][3] # Zero

\* ---- simulate ----
SimulateEnded == dyn_pc \in {"returned", "raised"}

\* The recorded times of a trajectory are strictly increasing.
TimesStrictlyIncreasing(trajectory) ==
    \A j \in 1..(Len(trajectory) - 1) :
        trajectory[j]["time"] < trajectory[j + 1]["time"]

\* C21 (as stated): started from an initial state whose time is below the
\* end time, simulate ends by returning, and the trajectory it returns
\* begins with the initial state it was given, reaches the end time, and
\* has strictly increasing times.
C21_SimulateTerminates ==
    /\ SimulateEnded =>
          (dyn_in.initial_state["time"] < dyn_in.tMax => dyn_pc = "returned")
    /\ dyn_pc = "returned" =>
          /\ dynamics[1] = dyn_in.initial_state
          /\ dynamics[Len(dynamics)]["time"] >= dyn_in.tMax
          /\ TimesStrictlyIncreasing(dynamics)

\* ---- OldSEIRPlusPlusSimulation.__call__ ----
\* The index of the first grid time at least HospitalizedLagDays after the
\* start, or the length of the grid when there is none.
LagIndex(t) ==
    LET late == {k \in 1..Len(t) :
                    FLe(FAdd(t[1], Frac(HospitalizedLagDays, 1)), t[k])}
    IN  IF late = {} THEN Len(t)
        ELSE (CHOOSE k \in late : \A m \in late : k <= m) - 1

\* hospitalized[k] = 2.7241 * critical[k + i] wherever k + i is on the grid.
LaggedPartners(y, i) ==
    \A k \in 1..Len(y["critical"]) :
        k + i <= Len(y["critical"]) =>
            y["hospitalized"][k] =
                VScale(y["critical"][k + i], HospitalizedFactor)

\* Exactly the last m entries of the series are nan.
LastUnset(series, m) ==
    \A k \in 1..Len(series) :
        (\A a \in Ages : IsNaN(series[k][a])) <=> k > Len(series) - m

RECURSIVE SumRange(_, _, _)
SumRange(x, from, to) ==
    IF to < from THEN Zero ELSE FAdd(SumRange(x, from, to - 1), x[to])

\* C23: in a base run, for every age group a and every time index
\* count >= 1 already stepped, susceptible[a, count] + infected[a, count] =
\* susceptible[a, count - 1]; hence after n steps susceptible[a, n] plus the
\* sum of infected[a, 1..n] is the initial susceptible[a, 0].
C23_MassBalance ==
    run_pc \in {"step", "returned"} =>
        \A a \in Ages :
            /\ \A c \in 1..(run_count - 1) :
                  FAdd(run_y["susceptible"][a][c + 1],
                       run_y["infected"][a][c + 1])
                      = run_y["susceptible"][a][c]
            /\ FAdd(run_y["susceptible"][a][run_count],
                    SumRange(run_y["infected"][a], 2, run_count))
                  = run_y["susceptible"][a][1]

\* A run of two steps, each of which infected somebody in every age group.
C23_Witness ==
    /\ run_pc = "returned"
    /\ run_calls = <<1, 2>>
    /\ \A a \in Ages :
          /\ run_y["infected"][a][2] # Zero
          /\ run_y["infected"][a][3] # Zero
          /\ run_y["susceptible"][a][3] # run_y["susceptible"][a][2]
          /\ run_y["susceptible"][a][2] # run_y["susceptible"][a][1]

====
